---- MODULE Spec2Model ----
(***************************************************************************)
(* A model of nutanix_prometheus_exporter.py: the request executor         *)
(* (process_request), the paginated entity fetcher (v4_get_all_entities),  *)
(* the per-entity fan-out of NutanixMetrics.fetch, the polling loop        *)
(* (run_metrics_loop), the constructors, the regions of fetch that         *)
(* aggregate and publish, the samplers and the Redfish collector.  Each    *)
(* part has its own specification; the variables of the other parts stay   *)
(* at their initial values.                                                *)
(***************************************************************************)
EXTENDS Integers, Sequences, FiniteSets, TLC

VARIABLES
    \* ---- process_request -------------------------------------------------
    rq_pc,          \* "idle" | "loop" | "returned" | "raised"
    method,         \* the method argument of the call
    max_retries,    \* api_requests_retries as passed to the call
    retries,        \* the local variable retries (attempts left)
    sleep_between_retries, \* the local variable of the same name
    response,       \* the local variable response (possibly unbound)
    raised,         \* the exception that left process_request, if any
    events,         \* what the call did so far: HTTP attempts and sleeps, in order
    parked,         \* the local variables of the call in another worker thread
    \* ---- v4_get_all_entities ---------------------------------------------
    pg_pc,          \* "idle" | "as_completed" | "returned" | "raised"
    total_available_results, \* what the count probe reported
    limit,          \* the page size
    futures,        \* the page numbers of the submitted tasks, in order
    page_task,      \* page number -> "queued" | "running" | "done" | "failed"
    pg_taken,       \* the futures the as_completed loop has handled
    entity_list,    \* the local variable entity_list
    pg_log,         \* the warnings printed: "Task failed", "No entities found"
    pg_progress,    \* the updates of the progress bar
    \* ---- the volume disks region of NutanixMetrics.fetch ------------------
    volume_group_list, \* the volume groups of the cycle: the disk total of each
    vg_i,           \* the position of "for entity in volume_group_list"
    page_count,     \* the local variable page_count: <<>> unbound, <<n>> bound to n
    volume_disk_list, \* the local variable of that name: <<>> unbound, <<l>> bound to l
    volume_disk_details_list, \* the local variable of that name
    \* ---- the per-entity fan-out of NutanixMetrics.fetch -------------------
    fo_pc,          \* "idle" | "as_completed" | "collected" | "raised"
    details_list,   \* the entity descriptors the tasks are submitted for
    stat_task,      \* position in details_list -> "queued" | "running" | "done" | "failed"
    fo_taken,       \* the futures the as_completed loop has handled
    metrics,        \* the local variable metrics
    fo_log,         \* the warnings printed
    fo_progress,    \* the updates of the progress bar
    \* ---- run_metrics_loop and the regions of NutanixMetrics.fetch ---------
    loop_pc,        \* "while" | "fetch" | "sleep" | "terminated"
    flags,          \* the enable flags of the collector
    cycle,          \* the number of calls of fetch so far
    step,           \* the statement of fetch that runs next
    lists,          \* the entity lists of fetch, by entity kind
    enumerated,     \* the kinds v4_get_all_entities returned for, this cycle, in order
    sampled,        \* the kinds whose fan-out ran this cycle
    registry,       \* gauge family -> the cycle that wrote it last (0: never)
    cycle_failure,  \* the kind whose enumeration raised, or "none"
    \* ---- the gauges of NutanixMetrics: __init__ and the lookups of fetch ----
    cat_pc,         \* "idle" | "fetch" | "returned" | "raised"
    enabled,        \* the enable flags __init__ stored on self
    registered,     \* the gauge attributes __init__ set on self
    lookup,         \* the publish step of fetch that runs next
    looked_up,      \* the keys fetch looked up in self.__dict__ so far
    history,        \* the network requests and gauge registrations of the process, in order
    \* ---- the gauge cells fetch writes: aggregation and publishing ----------
    g_pc,           \* "idle" | "while" | the region of fetch that runs | "returned"
    g_cycle,        \* the number of calls of fetch so far
    cluster_list,   \* the local variable cluster_list
    vms_list,       \* the local variable vms_list
    host_list,      \* the local variable host_list
    g_kind,         \* the entity kind whose stats region is followed
    g_details,      \* the details list of the stats region
    g_metrics,      \* the local variable metrics of the stats region
    g_i,            \* the position of the for loop that runs
    g_writes,       \* the calls .labels(...).set(...) of this cycle, in order
    gauges          \* <<key, label value>> -> the value the gauge child holds

reqVars == <<rq_pc, method, max_retries, retries, sleep_between_retries,
             response, raised, events, parked>>

diskVars == <<volume_group_list, vg_i, page_count, volume_disk_list,
              volume_disk_details_list>>

pageVars == <<pg_pc, total_available_results, limit, futures, page_task,
              pg_taken, entity_list, pg_log, pg_progress, diskVars>>

fanVars == <<fo_pc, details_list, stat_task, fo_taken, metrics, fo_log, fo_progress>>

loopVars == <<loop_pc, flags, cycle, step, lists, enumerated, sampled, registry,
              cycle_failure>>

catVars == <<cat_pc, enabled, registered, lookup, looked_up, history>>

\* The variables of the parts that follow the polling loop.
gaugeVars == <<g_pc, g_cycle, cluster_list, vms_list, host_list, g_kind, g_details, g_metrics,
               g_i, g_writes, gauges>>

laterVars == <<catVars, gaugeVars>>

vars == <<reqVars, pageVars, fanVars, loopVars, laterVars>>

(***************************************************************************)
(* Bounds of the model.                                                    *)
(***************************************************************************)
MaxRetries == 3
MaxTotal == 4
MaxLimit == 2
MaxEntities == 5
MaxListed == 2
MaxCycles == 2
MaxVms == 2
MaxLen == 3
MaxFields == 3

\* The elements of a list.
Elements(seq) == {seq[i] : i \in 1..Len(seq)}

(***************************************************************************)
(* process_request                                                         *)
(***************************************************************************)

\* The methods the if/elif chain of the loop body knows, and one it does not.
KnownMethods == {"GET", "POST", "PUT", "PATCH", "DELETE"}
Methods == {"GET", "POST", "HEAD"}

\* api_sleep_seconds_between_retries: the default and another value.
RetryDelays == {15, 2}

\* HTTP statuses a response can carry.
Statuses == {200, 204, 302, 401, 404, 500, 503}

\* Exception classes of the requests library that an HTTP call can raise,
\* with the classes each one is an instance of.
ExcClasses == {"ConnectionError", "ConnectTimeout", "ReadTimeout",
               "TooManyRedirects", "InvalidURL"}

IsInstance(exc, class) ==
    CASE class = "RequestException" -> TRUE
      [] class = "ConnectionError"  -> exc \in {"ConnectionError", "ConnectTimeout"}
      [] class = "Timeout"          -> exc \in {"ConnectTimeout", "ReadTimeout"}
      [] OTHER                      -> exc = class

\* The except clauses of the try statement, in the order they are written.
ExceptClauses == <<"HTTPError", "ConnectionError", "Timeout", "RequestException">>

\* A try statement whose timeout clause also takes redirect failures.
ExceptClauseRetriesAll(exc) ==
    IF exc = "HTTPError" THEN "HTTPError"
    ELSE IF IsInstance(exc, "ConnectionError") THEN "ConnectionError"
    ELSE "Timeout"

\* The first except clause that matches the exception.
ExceptClause(exc) ==
    LET matching == {i \in 1..Len(ExceptClauses) : IsInstance(exc, ExceptClauses[i])}
    IN  ExceptClauses[CHOOSE i \in matching : \A j \in matching : i <= j]

Unbound == [bound |-> FALSE, status_code |-> 0]
Response(status) == [bound |-> TRUE, status_code |-> status]

NoError == [type |-> "none", carries |-> {}]
Error(type, items) == [type |-> type, carries |-> items]

\* Reading the local variable response before any assignment to it.
UnboundLocalError == Error("UnboundLocalError", {})

\* Response.ok of requests: raise_for_status() does not raise.
Ok(status) == ~(400 <= status /\ status < 600)

Attempt(kind, status) == [kind |-> kind, arg |-> status]
Sleep(delay) == [kind |-> "sleep", arg |-> delay]

IsAttempt(e) == e.kind # "sleep"
Attempts(evs) == {i \in 1..Len(evs) : IsAttempt(evs[i])}
Sleeps(evs) == {i \in 1..Len(evs) : ~IsAttempt(evs[i])}

\* The statements after the while loop: the status checks of lines 2372-2396.
\* In the last branch the print of response.raise_for_status() raises the
\* HTTPError of requests before error_message is built.
RaiseForStatus(resp) ==
    IF resp.status_code = 401
    THEN Error("Exception", {"url", "status_code", "reason"})
    ELSE IF resp.status_code = 500
    THEN Error("Exception", {"url", "status_code", "reason", "text"})
    ELSE IF ~Ok(resp.status_code)
    THEN Error("HTTPError", {"url", "status_code", "reason"})
    ELSE Error("Exception", {"url", "status_code", "reason", "text"})

\* A loop that is entered again after a server error.
AfterLoopRetryServerError(resp) ==
    IF ~resp.bound THEN [pc |-> "raised", raised |-> UnboundLocalError]
    ELSE IF Ok(resp.status_code) THEN [pc |-> "returned", raised |-> NoError]
    ELSE IF resp.status_code >= 500 THEN [pc |-> "loop", raised |-> NoError]
    ELSE [pc |-> "raised", raised |-> RaiseForStatus(resp)]

AfterLoop(resp) ==
    IF ~resp.bound THEN [pc |-> "raised", raised |-> UnboundLocalError]
    ELSE IF Ok(resp.status_code) THEN [pc |-> "returned", raised |-> NoError]
    ELSE [pc |-> "raised", raised |-> RaiseForStatus(resp)]

\* A handler that sleeps and retries although no retry is left.
LastRetryOffByOne(r) == r = 0

\* The handler of a retryable failure decides on the retries left.
LastRetry(r) == r = 1

\* The call: the local variables are set and the while condition is tested.
ProcessRequest(m, n, delay) ==
    /\ UNCHANGED <<parked, pageVars, fanVars, loopVars, laterVars>>
    /\ rq_pc = "idle"
    /\ method' = m
    /\ max_retries' = n
    /\ retries' = n
    /\ sleep_between_retries' = delay
    /\ response' = Unbound
    /\ events' = <<>>
    /\ IF n > 0
       THEN /\ rq_pc' = "loop"
            /\ raised' = NoError
       ELSE /\ rq_pc' = AfterLoop(Unbound).pc
            /\ raised' = AfterLoop(Unbound).raised

\* An iteration whose HTTP call returns a response: break, then the checks.
AttemptResponse(status) ==
    /\ UNCHANGED <<parked, pageVars, fanVars, loopVars, laterVars>>
    /\ rq_pc = "loop"
    /\ method \in KnownMethods
    /\ response' = Response(status)
    /\ events' = Append(events, Attempt("response", status))
    /\ rq_pc' = AfterLoop(Response(status)).pc
    /\ raised' = AfterLoop(Response(status)).raised
    /\ UNCHANGED <<method, max_retries, retries, sleep_between_retries>>

\* An iteration whose HTTP call raises: the matching except clause runs.
AttemptRaises(exc) ==
    /\ UNCHANGED <<parked, pageVars, fanVars, loopVars, laterVars>>
    /\ rq_pc = "loop"
    /\ method \in KnownMethods
    /\ LET clause == ExceptClause(exc)
           attempted == Append(events, Attempt(exc, 0))
       IN  CASE clause \in {"ConnectionError", "Timeout"} ->
                  IF LastRetry(retries)
                  THEN /\ raised' = Error("Exception", {"url", "cause"})
                       /\ rq_pc' = "raised"
                       /\ events' = attempted
                       /\ UNCHANGED retries
                  ELSE \* sleep, count down, continue: the while condition again
                       /\ events' = Append(attempted, Sleep(sleep_between_retries))
                       /\ retries' = retries - 1
                       /\ IF retries - 1 > 0
                          THEN UNCHANGED <<rq_pc, raised>>
                          ELSE /\ rq_pc' = AfterLoop(response).pc
                               /\ raised' = AfterLoop(response).raised
             [] clause \in {"HTTPError", "RequestException"} ->
                  \* both handlers read response.status_code first
                  /\ raised' = IF response.bound
                               THEN Error("Exception",
                                          IF clause = "HTTPError"
                                          THEN {"url", "status_code", "reason", "text"}
                                          ELSE {"url", "status_code"})
                               ELSE UnboundLocalError
                  /\ rq_pc' = "raised"
                  /\ events' = attempted
                  /\ UNCHANGED retries
    /\ UNCHANGED <<method, max_retries, sleep_between_retries, response>>

\* An iteration with a method none of the branches matches: no HTTP call is
\* made, the loop is left by break and response was never assigned.
NoBranch ==
    /\ UNCHANGED <<parked, pageVars, fanVars, loopVars, laterVars>>
    /\ rq_pc = "loop"
    /\ method \notin KnownMethods
    /\ rq_pc' = AfterLoop(response).pc
    /\ raised' = AfterLoop(response).raised
    /\ UNCHANGED <<method, max_retries, retries, sleep_between_retries,
                   response, events>>

\* The caller has taken the result; the next call can start.
RequestDone ==
    /\ UNCHANGED <<parked, pageVars, fanVars, loopVars, laterVars>>
    /\ rq_pc \in {"returned", "raised"}
    /\ rq_pc' = "idle"
    /\ method' = "GET"
    /\ max_retries' = 0
    /\ retries' = 0
    /\ sleep_between_retries' = 0
    /\ response' = Unbound
    /\ raised' = NoError
    /\ events' = <<>>

PagesIdle ==
    /\ pg_pc = "idle"
    /\ total_available_results = 0
    /\ limit = 0
    /\ futures = <<>>
    /\ page_task = <<>>
    /\ pg_taken = {}
    /\ entity_list = <<>>
    /\ pg_log = <<>>
    /\ pg_progress = 0
    /\ volume_group_list = <<>>
    /\ vg_i = 0
    /\ page_count = <<>>
    /\ volume_disk_list = <<>>
    /\ volume_disk_details_list = <<>>

FanOutIdle ==
    /\ fo_pc = "idle"
    /\ details_list = <<>>
    /\ stat_task = <<>>
    /\ fo_taken = {}
    /\ metrics = <<>>
    /\ fo_log = <<>>
    /\ fo_progress = 0

LoopIdle ==
    /\ loop_pc = "while"
    /\ flags = [f \in {"prism_central_metrics", "cluster_metrics", "hosts_metrics",
                       "storage_containers_metrics"} |-> FALSE]
    /\ cycle = 0
    /\ step = 0
    /\ lists = <<>>
    /\ enumerated = <<>>
    /\ sampled = {}
    /\ registry = <<>>
    /\ cycle_failure = "none"

CatalogIdle ==
    /\ cat_pc = "idle"
    /\ enabled = <<>>
    /\ registered = {}
    /\ lookup = 0
    /\ looked_up = {}
    /\ history = <<>>

GaugesIdle ==
    /\ g_pc = "idle"
    /\ g_cycle = 0
    /\ cluster_list = <<>>
    /\ vms_list = <<>>
    /\ host_list = <<>>
    /\ g_kind = "none"
    /\ g_details = <<>>
    /\ g_metrics = <<>>
    /\ g_i = 0
    /\ g_writes = <<>>
    /\ gauges = <<>>

LaterIdle == CatalogIdle /\ GaugesIdle

\* The local variables of a call that has not started.
IdleFrame ==
    [pc |-> "idle", method |-> "GET", max_retries |-> 0, retries |-> 0,
     sleep_between_retries |-> 0, response |-> Unbound, raised |-> NoError,
     events |-> <<>>]

RequestIdle ==
    /\ rq_pc = "idle"
    /\ method = "GET"
    /\ max_retries = 0
    /\ retries = 0
    /\ sleep_between_retries = 0
    /\ response = Unbound
    /\ raised = NoError
    /\ events = <<>>
    /\ parked = IdleFrame

InitRequest == RequestIdle /\ PagesIdle /\ FanOutIdle /\ LoopIdle /\ LaterIdle

NextRequest ==
    \/ \E m \in Methods, n \in 0..MaxRetries, d \in RetryDelays : ProcessRequest(m, n, d)
    \/ \E s \in Statuses : AttemptResponse(s)
    \/ \E x \in ExcClasses : AttemptRaises(x)
    \/ NoBranch
    \/ RequestDone

SpecRequest == InitRequest /\ [][NextRequest]_vars

\* The local variables of the call of the worker thread that runs.
Running ==
    [pc |-> rq_pc, method |-> method, max_retries |-> max_retries, retries |-> retries,
     sleep_between_retries |-> sleep_between_retries, response |-> response,
     raised |-> raised, events |-> events]

\* A plausible bug: retries is a module-level variable that the calls share.
ResumedSharingRetries(frame, running) == [frame EXCEPT !.retries = running.retries]

\* What a thread finds when it runs again: process_request has only
\* parameters and local variables, and each call has its own.
Resumed(frame, running) == frame

\* The interpreter switches between the two worker threads of the pool that
\* are in process_request.
Switch ==
    /\ parked' = Running
    /\ LET frame == Resumed(parked, Running)
       IN  /\ rq_pc' = frame.pc
           /\ method' = frame.method
           /\ max_retries' = frame.max_retries
           /\ retries' = frame.retries
           /\ sleep_between_retries' = frame.sleep_between_retries
           /\ response' = frame.response
           /\ raised' = frame.raised
           /\ events' = frame.events
    /\ UNCHANGED <<pageVars, fanVars, loopVars, laterVars>>

\* Two calls of process_request, interleaved in any way; a call gets a
\* response, a failure that is retried or one that is not.
NextThreads ==
    \/ \E m \in {"GET", "HEAD"}, n \in 0..MaxRetries, d \in RetryDelays :
           ProcessRequest(m, n, d)
    \/ \E s \in {200, 500} : AttemptResponse(s)
    \/ \E x \in {"ConnectionError", "InvalidURL"} : AttemptRaises(x)
    \/ NoBranch
    \/ RequestDone
    \/ Switch

SpecThreads == InitRequest /\ [][NextThreads]_vars

(***************************************************************************)
(* v4_get_all_entities                                                     *)
(***************************************************************************)

\* The pairs (total_available_results, limit) the calls are made with: the
\* small ones, and 150 entities in pages of 100.
ListInputs == ((0..MaxTotal) \X (1..MaxLimit)) \cup {<<150, 100>>}

\* max_workers of the ThreadPoolExecutor.
max_workers == 10

\* A page count that rounds down.
PageCountFloor(total, lim) == total \div lim

\* page_count = math.ceil(total_available_results/limit)
PageCount(total, lim) ==
    IF total % lim = 0 THEN total \div lim ELSE (total \div lim) + 1

\* range(0, page_count, 1) as the list the comprehension walks.
Range(n) == [i \in 1..n |-> i - 1]

\* The data of page number page of the listing: what the list function of the
\* API returns for _page=page, _limit=lim when total entities exist.  The
\* entities are numbered from 0.
PageData(total, lim, page) ==
    LET first == page * lim
        last  == IF first + lim < total THEN first + lim ELSE total
    IN  [i \in 1..(IF last > first THEN last - first ELSE 0) |-> first + i - 1]

\* A loop body that keeps only the page it handles.
ExtendReplaces(list, data) == data

\* entity_list.extend(entities.data)
Extend(list, data) == list \o data

\* The call up to the as_completed loop: the count probe answers, the page
\* count is computed and one task per page is submitted; without entities
\* the warning is printed and the empty list is returned.
GetAllEntities(total, lim) ==
    /\ pg_pc = "idle"
    /\ total_available_results' = total
    /\ limit' = lim
    /\ entity_list' = <<>>
    /\ pg_taken' = {}
    /\ pg_progress' = 0
    /\ IF total # 0
       THEN LET count == PageCount(total, lim)   \* its own page_count
            IN  IF count > 0
                THEN /\ futures' = Range(count)
                     /\ page_task' = [page \in 0..(count - 1) |-> "queued"]
                     /\ pg_pc' = "as_completed"
                     /\ pg_log' = <<>>
                ELSE /\ futures' = <<>>
                     /\ page_task' = <<>>
                     /\ pg_pc' = "returned"
                     /\ pg_log' = <<>>
       ELSE /\ futures' = <<>>
            /\ page_task' = <<>>
            /\ pg_pc' = "returned"
            /\ pg_log' = <<"No entities found">>
    /\ UNCHANGED <<reqVars, diskVars, fanVars, loopVars, laterVars>>

\* The count probe list_function(_page=0,_limit=1) raises: nothing catches it.
GetAllEntitiesProbeRaises ==
    /\ pg_pc = "idle"
    /\ pg_pc' = "raised"
    /\ UNCHANGED <<total_available_results, limit, futures, page_task, pg_taken,
                   entity_list, pg_log, pg_progress>>
    /\ UNCHANGED <<reqVars, diskVars, fanVars, loopVars, laterVars>>

\* A worker thread of the pool takes a queued task.
PageTaskStart(page) ==
    /\ pg_pc = "as_completed"
    /\ page \in DOMAIN page_task
    /\ page_task[page] = "queued"
    /\ Cardinality({q \in DOMAIN page_task : page_task[q] = "running"}) < max_workers
    /\ page_task' = [page_task EXCEPT ![page] = "running"]
    /\ UNCHANGED <<pg_pc, total_available_results, limit, futures, pg_taken,
                   entity_list, pg_log, pg_progress>>
    /\ UNCHANGED <<reqVars, diskVars, fanVars, loopVars, laterVars>>

\* v4_get_entities returns the page, or raises.
PageTaskEnd(page, outcome) ==
    /\ pg_pc = "as_completed"
    /\ page \in DOMAIN page_task
    /\ page_task[page] = "running"
    /\ page_task' = [page_task EXCEPT ![page] = outcome]
    /\ UNCHANGED <<pg_pc, total_available_results, limit, futures, pg_taken,
                   entity_list, pg_log, pg_progress>>
    /\ UNCHANGED <<reqVars, diskVars, fanVars, loopVars, laterVars>>

\* "except Exception" around future.result(): what a page task raises is an
\* Exception, and the clause takes it.
PageTaskCaught(outcome) == outcome = "failed"

\* One iteration of the as_completed loop: try / except / finally.
PageTaken(i) ==
    /\ pg_pc = "as_completed"
    /\ i \in 1..Len(futures)
    /\ i \notin pg_taken
    /\ page_task[futures[i]] \in {"done", "failed"}
    /\ pg_taken' = pg_taken \cup {i}
    /\ IF page_task[futures[i]] = "done"
       THEN /\ entity_list' = Extend(entity_list,
                                     PageData(total_available_results, limit, futures[i]))
            /\ UNCHANGED pg_log
            /\ UNCHANGED pg_pc
       ELSE IF PageTaskCaught(page_task[futures[i]])
       THEN /\ pg_log' = Append(pg_log, "Task failed")
            /\ UNCHANGED <<entity_list, pg_pc>>
       ELSE /\ pg_pc' = "raised"
            /\ UNCHANGED <<entity_list, pg_log>>
    /\ pg_progress' = pg_progress + 1
    /\ UNCHANGED <<total_available_results, limit, futures, page_task>>
    /\ UNCHANGED <<reqVars, diskVars, fanVars, loopVars, laterVars>>

\* Every future was yielded: the with blocks are left and entity_list returned.
GetAllEntitiesReturn ==
    /\ pg_pc = "as_completed"
    /\ pg_taken = 1..Len(futures)
    /\ pg_pc' = "returned"
    /\ UNCHANGED <<total_available_results, limit, futures, page_task, pg_taken,
                   entity_list, pg_log, pg_progress>>
    /\ UNCHANGED <<reqVars, diskVars, fanVars, loopVars, laterVars>>

\* The caller has taken the list or the exception.
GetAllEntitiesDone ==
    /\ pg_pc \in {"returned", "raised"}
    /\ pg_pc' = "idle"
    /\ total_available_results' = 0
    /\ limit' = 0
    /\ futures' = <<>>
    /\ page_task' = <<>>
    /\ pg_taken' = {}
    /\ entity_list' = <<>>
    /\ pg_log' = <<>>
    /\ pg_progress' = 0
    /\ UNCHANGED <<reqVars, diskVars, fanVars, loopVars, laterVars>>

InitPages == RequestIdle /\ PagesIdle /\ FanOutIdle /\ LoopIdle /\ LaterIdle

NextPages ==
    \/ \E in \in ListInputs : GetAllEntities(in[1], in[2])
    \/ GetAllEntitiesProbeRaises
    \/ \E page \in DOMAIN page_task : PageTaskStart(page)
    \/ \E page \in DOMAIN page_task, outcome \in {"done", "failed"} :
          PageTaskEnd(page, outcome)
    \/ \E i \in 1..Len(futures) : PageTaken(i)
    \/ GetAllEntitiesReturn
    \/ GetAllEntitiesDone

SpecPages == InitPages /\ [][NextPages]_vars

(***************************************************************************)
(* The volume disks region of NutanixMetrics.fetch: one enumeration per    *)
(* volume group, inline in fetch                                           *)
(***************************************************************************)

\* The volume groups of a cycle, each given by the number of its disks.
VolumeGroupLists ==
    UNION {[1..n -> 0..(2 * MaxLimit)] : n \in 0..MaxListed}

\* page_count when the region is entered: unbound when no statement before
\* the region bound it, or what the VM statistics region bound it to.
PageCountsBefore == {<<>>, <<0>>, <<1>>}

\* if total_available_results: page_count = math.ceil(.../limit)
\* A total of 0 leaves page_count what it was.
PageCountOf(total, old) == IF total # 0 THEN <<PageCount(total, MaxLimit)>> ELSE old

\* The region is entered: volume_disk_details_list = [].
VolumeDisksBegin(groups, before) ==
    /\ pg_pc = "idle"
    /\ volume_group_list' = groups
    /\ vg_i' = 1
    /\ page_count' = before
    /\ volume_disk_list' = <<>>
    /\ volume_disk_details_list' = <<>>
    /\ limit' = MaxLimit
    /\ pg_pc' = "for_entity"
    /\ UNCHANGED <<total_available_results, futures, page_task, pg_taken,
                   entity_list, pg_log, pg_progress>>
    /\ UNCHANGED <<reqVars, fanVars, loopVars, laterVars>>

\* The head of one iteration of "for entity in volume_group_list": the count
\* probe, the page count and the submission of one task per page.  Reading
\* page_count while it is unbound raises UnboundLocalError.
VolumeGroupProbe ==
    /\ pg_pc = "for_entity"
    /\ vg_i \in 1..Len(volume_group_list)
    /\ LET total == volume_group_list[vg_i]
           count == PageCountOf(total, page_count)
       IN  /\ entity_list' = <<>>
           /\ total_available_results' = total
           /\ page_count' = count
           /\ IF count = <<>>
              THEN /\ pg_pc' = "raised"
                   /\ UNCHANGED <<futures, page_task, pg_taken, pg_progress>>
              ELSE IF count[1] > 0
              THEN /\ futures' = Range(count[1])
                   /\ page_task' = [page \in 0..(count[1] - 1) |-> "queued"]
                   /\ pg_taken' = {}
                   /\ pg_progress' = 0
                   /\ pg_pc' = "as_completed"
              ELSE /\ pg_pc' = "stats"
                   /\ UNCHANGED <<futures, page_task, pg_taken, pg_progress>>
    /\ UNCHANGED <<volume_group_list, vg_i, volume_disk_list,
                   volume_disk_details_list, limit, pg_log>>
    /\ UNCHANGED <<reqVars, fanVars, loopVars, laterVars>>

\* Every future was yielded: volume_disk_list = entity_list.  The entities
\* are the disks of the group that was listed.
VolumeGroupCollected ==
    /\ pg_pc = "as_completed"
    /\ vg_i \in 1..Len(volume_group_list)
    /\ pg_taken = 1..Len(futures)
    /\ volume_disk_list' =
           << [k \in 1..Len(entity_list) |-> [group |-> vg_i, index |-> entity_list[k]]] >>
    /\ pg_pc' = "stats"
    /\ UNCHANGED <<volume_group_list, vg_i, page_count, volume_disk_details_list>>
    /\ UNCHANGED <<total_available_results, limit, futures, page_task, pg_taken,
                   entity_list, pg_log, pg_progress>>
    /\ UNCHANGED <<reqVars, fanVars, loopVars, laterVars>>

\* "for volume_disk in volume_disk_list": one descriptor per disk, with the
\* group of this iteration as its parent.  Reading volume_disk_list while it
\* is unbound raises UnboundLocalError.
VolumeDiskDetails ==
    /\ pg_pc = "stats"
    /\ IF volume_disk_list = <<>>
       THEN /\ pg_pc' = "raised"
            /\ UNCHANGED <<vg_i, volume_disk_details_list>>
       ELSE /\ volume_disk_details_list' = volume_disk_details_list \o
                [k \in 1..Len(volume_disk_list[1]) |->
                    [entity_name   |-> <<vg_i, volume_disk_list[1][k].index>>,
                     entity_uuid   |-> volume_disk_list[1][k],
                     entity_parent |-> vg_i]]
            /\ vg_i' = vg_i + 1
            /\ pg_pc' = "for_entity"
    /\ UNCHANGED <<volume_group_list, page_count, volume_disk_list>>
    /\ UNCHANGED <<total_available_results, limit, futures, page_task, pg_taken,
                   entity_list, pg_log, pg_progress>>
    /\ UNCHANGED <<reqVars, fanVars, loopVars, laterVars>>

\* The loop over the volume groups is exhausted; the details list goes to the
\* fan-out of the region.
VolumeDisksReturn ==
    /\ pg_pc = "for_entity"
    /\ vg_i = Len(volume_group_list) + 1
    /\ pg_pc' = "returned"
    /\ UNCHANGED diskVars
    /\ UNCHANGED <<total_available_results, limit, futures, page_task, pg_taken,
                   entity_list, pg_log, pg_progress>>
    /\ UNCHANGED <<reqVars, fanVars, loopVars, laterVars>>

\* fetch has returned or raised: its locals are dead.
VolumeDisksDone ==
    /\ pg_pc \in {"returned", "raised"}
    /\ vg_i # 0
    /\ pg_pc' = "idle"
    /\ total_available_results' = 0
    /\ limit' = 0
    /\ futures' = <<>>
    /\ page_task' = <<>>
    /\ pg_taken' = {}
    /\ entity_list' = <<>>
    /\ pg_log' = <<>>
    /\ pg_progress' = 0
    /\ volume_group_list' = <<>>
    /\ vg_i' = 0
    /\ page_count' = <<>>
    /\ volume_disk_list' = <<>>
    /\ volume_disk_details_list' = <<>>
    /\ UNCHANGED <<reqVars, fanVars, loopVars, laterVars>>

NextDisks ==
    \/ /\ pg_pc = "idle"
       /\ \E groups \in VolumeGroupLists, before \in PageCountsBefore :
             VolumeDisksBegin(groups, before)
    \/ VolumeGroupProbe
    \/ /\ vg_i # 0
       /\ \/ \E page \in DOMAIN page_task : PageTaskStart(page)
          \/ \E page \in DOMAIN page_task, outcome \in {"done", "failed"} :
                PageTaskEnd(page, outcome)
          \/ \E i \in 1..Len(futures) : PageTaken(i)
    \/ VolumeGroupCollected
    \/ VolumeDiskDetails
    \/ VolumeDisksReturn
    \/ VolumeDisksDone

SpecDisks == InitPages /\ [][NextDisks]_vars

(***************************************************************************)
(* The per-entity fan-out of NutanixMetrics.fetch (the cluster region)     *)
(***************************************************************************)

\* The stat fields the statistics call answers with for an entity: none, one
\* or two fields with a sample.
StatFields(entity) ==
    CASE entity % 3 = 0 -> <<>>
      [] entity % 3 = 1 -> <<"f1">>
      [] OTHER          -> <<"f1", "f2">>

\* What v4_get_entity_stats returns for the entity: one triple per field.
EntityStats(entity) ==
    [i \in 1..Len(StatFields(entity)) |->
        <<StatFields(entity)[i], entity, 10 * entity + i>>]

\* An except clause that lets the failure of a task through.
StatTaskNotCaught(outcome) == FALSE

\* "except Exception" around future.result(): what a sampler task raises is
\* an Exception, and the clause takes it.
StatTaskCaught(outcome) == outcome = "failed"

\* One task per entity descriptor is submitted to the pool.
FanOut(n) ==
    /\ fo_pc = "idle"
    /\ details_list' = [i \in 1..n |-> i]
    /\ stat_task' = [i \in 1..n |-> "queued"]
    /\ fo_taken' = {}
    /\ metrics' = <<>>
    /\ fo_log' = <<>>
    /\ fo_progress' = 0
    /\ fo_pc' = "as_completed"
    /\ UNCHANGED <<reqVars, pageVars, loopVars, laterVars>>

\* A worker thread of the pool takes a queued task.
StatTaskStart(i) ==
    /\ fo_pc = "as_completed"
    /\ i \in DOMAIN stat_task
    /\ stat_task[i] = "queued"
    /\ Cardinality({j \in DOMAIN stat_task : stat_task[j] = "running"}) < max_workers
    /\ stat_task' = [stat_task EXCEPT ![i] = "running"]
    /\ UNCHANGED <<fo_pc, details_list, fo_taken, metrics, fo_log, fo_progress>>
    /\ UNCHANGED <<reqVars, pageVars, loopVars, laterVars>>

\* v4_get_entity_stats returns its triples, or raises.
StatTaskEnd(i, outcome) ==
    /\ fo_pc = "as_completed"
    /\ i \in DOMAIN stat_task
    /\ stat_task[i] = "running"
    /\ stat_task' = [stat_task EXCEPT ![i] = outcome]
    /\ UNCHANGED <<fo_pc, details_list, fo_taken, metrics, fo_log, fo_progress>>
    /\ UNCHANGED <<reqVars, pageVars, loopVars, laterVars>>

\* One iteration of the as_completed loop: try / except / finally.
StatTaken(i) ==
    /\ fo_pc = "as_completed"
    /\ i \in DOMAIN stat_task
    /\ i \notin fo_taken
    /\ stat_task[i] \in {"done", "failed"}
    /\ fo_taken' = fo_taken \cup {i}
    /\ IF stat_task[i] = "done"
       THEN /\ metrics' = metrics \o EntityStats(details_list[i])
            /\ UNCHANGED <<fo_log, fo_pc>>
       ELSE IF StatTaskCaught(stat_task[i])
       THEN /\ fo_log' = Append(fo_log, "Task failed")
            /\ UNCHANGED <<metrics, fo_pc>>
       ELSE /\ fo_pc' = "raised"
            /\ UNCHANGED <<metrics, fo_log>>
    /\ fo_progress' = fo_progress + 1
    /\ UNCHANGED <<details_list, stat_task>>
    /\ UNCHANGED <<reqVars, pageVars, loopVars, laterVars>>

\* A loop that is left after the first future it was handed.
LeftAfterFirst(taken, tasks) == taken # {} \/ DOMAIN tasks = {}

\* "for future in as_completed(futures)" is exhausted: every submitted future
\* was yielded, and as_completed yields a future when its task has finished.
AllYielded(taken, tasks) == taken = DOMAIN tasks

\* Every future was yielded: the with blocks are left.
FanOutCollected ==
    /\ fo_pc = "as_completed"
    /\ AllYielded(fo_taken, stat_task)
    /\ fo_pc' = "collected"
    /\ UNCHANGED <<details_list, stat_task, fo_taken, metrics, fo_log, fo_progress>>
    /\ UNCHANGED <<reqVars, pageVars, loopVars, laterVars>>

\* The metrics were handed to the publishing loop; the next fan-out can start.
FanOutDone ==
    /\ fo_pc \in {"collected", "raised"}
    /\ fo_pc' = "idle"
    /\ details_list' = <<>>
    /\ stat_task' = <<>>
    /\ fo_taken' = {}
    /\ metrics' = <<>>
    /\ fo_log' = <<>>
    /\ fo_progress' = 0
    /\ UNCHANGED <<reqVars, pageVars, loopVars, laterVars>>

InitFanOut == RequestIdle /\ PagesIdle /\ FanOutIdle /\ LoopIdle /\ LaterIdle

NextFanOut ==
    \/ \E n \in 0..MaxEntities : FanOut(n)
    \/ \E i \in DOMAIN stat_task : StatTaskStart(i)
    \/ \E i \in DOMAIN stat_task, outcome \in {"done", "failed"} : StatTaskEnd(i, outcome)
    \/ \E i \in DOMAIN stat_task : StatTaken(i)
    \/ FanOutCollected
    \/ FanOutDone

SpecFanOut == InitFanOut /\ [][NextFanOut]_vars

(***************************************************************************)
(* One stats region of NutanixMetrics.fetch: the enumeration, then the     *)
(* fan-out over what was enumerated, then the publishing loop              *)
(***************************************************************************)

\* The listings of one page each that the region is followed for.
RegionInputs == (0..MaxListed) \X {1}

\* "for metric in metrics" has run: the region is left with the gauges written,
\* and the locals of the enumeration and of the fan-out are dead.
StatsRegionDone ==
    /\ pg_pc = "returned"
    /\ fo_pc = "collected"
    /\ pg_pc' = "idle"
    /\ total_available_results' = 0
    /\ limit' = 0
    /\ futures' = <<>>
    /\ page_task' = <<>>
    /\ pg_taken' = {}
    /\ entity_list' = <<>>
    /\ pg_log' = <<>>
    /\ pg_progress' = 0
    /\ fo_pc' = "idle"
    /\ details_list' = <<>>
    /\ stat_task' = <<>>
    /\ fo_taken' = {}
    /\ metrics' = <<>>
    /\ fo_log' = <<>>
    /\ fo_progress' = 0
    /\ UNCHANGED <<reqVars, diskVars, loopVars, laterVars>>

\* The statements of the region in the order fetch runs them: the call of
\* v4_get_all_entities, and when it has returned the fan-out over the list.
NextRegion ==
    \/ /\ fo_pc = "idle"
       /\ \/ \E in \in RegionInputs : GetAllEntities(in[1], in[2])
          \/ GetAllEntitiesProbeRaises
          \/ \E page \in DOMAIN page_task : PageTaskStart(page)
          \/ \E page \in DOMAIN page_task, outcome \in {"done", "failed"} :
                PageTaskEnd(page, outcome)
          \/ \E i \in 1..Len(futures) : PageTaken(i)
          \/ GetAllEntitiesReturn
          \/ pg_pc = "raised" /\ GetAllEntitiesDone
    \/ /\ pg_pc = "returned"
       /\ \/ FanOut(Len(entity_list))
          \/ \E i \in DOMAIN stat_task : StatTaskStart(i)
          \/ \E i \in DOMAIN stat_task, outcome \in {"done", "failed"} :
                StatTaskEnd(i, outcome)
          \/ \E i \in DOMAIN stat_task : StatTaken(i)
          \/ FanOutCollected
          \/ StatsRegionDone

SpecRegion == InitFanOut /\ [][NextRegion]_vars

(***************************************************************************)
(* run_metrics_loop and the regions of NutanixMetrics.fetch                *)
(***************************************************************************)

Kinds == {"vm", "cluster", "host", "storage_container"}

Flags == {"prism_central_metrics", "cluster_metrics", "hosts_metrics",
          "storage_containers_metrics"}

Families == {"count_vm", "count_cluster", "count_node", "count_storage_container",
             "cluster_stats", "host_stats", "storage_container_stats"}

Stmt(flag, op, kind, cond, family) ==
    [flag |-> flag, op |-> op, kind |-> kind, cond |-> cond, family |-> family]

\* A plausible bug: the fan-out of the hosts region placed before the
\* enumeration it depends on.
ProgramSamplesFirst ==
    << Stmt("prism_central_metrics", "enumerate", "vm", "always", "count_vm"),
       Stmt("prism_central_metrics", "enumerate", "cluster", "always", "count_cluster"),
       Stmt("prism_central_metrics", "enumerate", "host", "always", "count_node"),
       Stmt("prism_central_metrics", "enumerate", "storage_container", "always",
            "count_storage_container"),
       Stmt("cluster_metrics", "enumerate", "cluster", "always", "none"),
       Stmt("cluster_metrics", "fan_out", "cluster", "always", "cluster_stats"),
       Stmt("cluster_metrics", "enumerate", "vm", "if_empty", "count_vm"),
       Stmt("cluster_metrics", "enumerate", "host", "if_empty", "count_node"),
       Stmt("cluster_metrics", "enumerate", "storage_container", "if_empty",
            "count_storage_container"),
       Stmt("hosts_metrics", "fan_out", "host", "always", "host_stats"),
       Stmt("hosts_metrics", "enumerate", "host", "if_empty", "none"),
       Stmt("hosts_metrics", "enumerate", "vm", "if_empty", "count_vm"),
       Stmt("storage_containers_metrics", "enumerate", "storage_container",
            "if_empty", "none"),
       Stmt("storage_containers_metrics", "fan_out", "storage_container", "always",
            "storage_container_stats") >>

\* The statements of fetch that enumerate, sample and publish, in the order of
\* the source, for the entity kinds of the model.  cond is "always" for an
\* unconditional call and "if_empty" for one under "if not <kind>_list".
Program ==
    << Stmt("prism_central_metrics", "enumerate", "vm", "always", "count_vm"),
       Stmt("prism_central_metrics", "enumerate", "cluster", "always", "count_cluster"),
       Stmt("prism_central_metrics", "enumerate", "host", "always", "count_node"),
       Stmt("prism_central_metrics", "enumerate", "storage_container", "always",
            "count_storage_container"),
       Stmt("cluster_metrics", "enumerate", "cluster", "always", "none"),
       Stmt("cluster_metrics", "fan_out", "cluster", "always", "cluster_stats"),
       Stmt("cluster_metrics", "enumerate", "vm", "if_empty", "count_vm"),
       Stmt("cluster_metrics", "enumerate", "host", "if_empty", "count_node"),
       Stmt("cluster_metrics", "enumerate", "storage_container", "if_empty",
            "count_storage_container"),
       Stmt("hosts_metrics", "enumerate", "host", "if_empty", "none"),
       Stmt("hosts_metrics", "fan_out", "host", "always", "host_stats"),
       Stmt("hosts_metrics", "enumerate", "vm", "if_empty", "count_vm"),
       Stmt("storage_containers_metrics", "enumerate", "storage_container",
            "if_empty", "none"),
       Stmt("storage_containers_metrics", "fan_out", "storage_container", "always",
            "storage_container_stats") >>

End == Len(Program) + 1

\* Whether statement i runs, given the flags and the lists at that point.
Runs(i, fl, ls) ==
    /\ fl[Program[i].flag]
    /\ Program[i].cond = "if_empty" => ls[Program[i].kind] = <<>>

\* The first statement after i that runs: the others are skipped by their if.
NextStmt(i, fl, ls) ==
    LET later == {j \in (i + 1)..Len(Program) : Runs(j, fl, ls)}
    IN  IF later = {} THEN End ELSE CHOOSE j \in later : \A k \in later : j <= k

\* An exception that leaves v4_get_all_entities: fetch has no try around the
\* call and run_metrics_loop has none around fetch, so the loop is left.
Propagates(pc) == "terminated"

Written(reg, family, c) ==
    IF family = "none" THEN reg ELSE [reg EXCEPT ![family] = c]

\* A plausible bug: the lists are attributes of the collector and keep what the
\* previous call of fetch left in them.
ListsKept(ls) == ls

\* The entity lists are local variables of fetch, bound to [] at each call.
ListsAtCall(ls) == [k \in Kinds |-> <<>>]

\* A plausible bug: a timer starts fetch every polling interval, whether or not
\* the previous call has returned.
StartsOnTimer(pc) == pc \in {"while", "fetch", "sleep"}

\* run_metrics_loop calls fetch at the top of its while loop and nowhere else.
StartsAtTop(pc) == pc = "while"

\* while True: self.fetch() -- the call and the initialisation of the lists.
FetchBegin ==
    /\ StartsAtTop(loop_pc)
    /\ cycle < MaxCycles
    /\ cycle' = cycle + 1
    /\ lists' = ListsAtCall(lists)
    /\ enumerated' = <<>>
    /\ sampled' = {}
    /\ cycle_failure' = "none"
    /\ step' = NextStmt(0, flags, lists')
    /\ loop_pc' = "fetch"
    /\ UNCHANGED <<flags, registry>>
    /\ UNCHANGED <<reqVars, pageVars, fanVars, laterVars>>

\* <kind>_list = v4_get_all_entities(...) returns n entities (fewer than exist
\* when a page task failed); the counts of the list are published where the
\* statement is followed by the count gauges.
Enumerate(n) ==
    /\ loop_pc = "fetch"
    /\ step < End
    /\ Program[step].op = "enumerate"
    /\ lists' = [lists EXCEPT ![Program[step].kind] = [i \in 1..n |-> i]]
    /\ enumerated' = Append(enumerated, Program[step].kind)
    /\ registry' = Written(registry, Program[step].family, cycle)
    /\ step' = NextStmt(step, flags, lists')
    /\ UNCHANGED <<loop_pc, flags, cycle, sampled, cycle_failure>>
    /\ UNCHANGED <<reqVars, pageVars, fanVars, laterVars>>

\* The count probe of v4_get_all_entities raises.
EnumerateRaises ==
    /\ loop_pc = "fetch"
    /\ step < End
    /\ Program[step].op = "enumerate"
    /\ cycle_failure' = Program[step].kind
    /\ loop_pc' = Propagates(loop_pc)
    /\ UNCHANGED <<flags, cycle, step, lists, enumerated, sampled, registry>>
    /\ UNCHANGED <<reqVars, pageVars, fanVars, laterVars>>

\* The entities of the list the statement at step works on.
Listed ==
    IF loop_pc = "fetch" /\ step < End
    THEN {lists[Program[step].kind][i] : i \in 1..Len(lists[Program[step].kind])}
    ELSE {}

\* The fan-out over the list of the kind and the publishing of its metrics:
\* the tasks of the entities in ok return their triples, the others raise.
Sample(ok) ==
    /\ loop_pc = "fetch"
    /\ step < End
    /\ Program[step].op = "fan_out"
    /\ sampled' = sampled \cup {Program[step].kind}
    /\ registry' = IF \E e \in ok : EntityStats(e) # <<>>
                   THEN Written(registry, Program[step].family, cycle)
                   ELSE registry
    /\ step' = NextStmt(step, flags, lists)
    /\ UNCHANGED <<loop_pc, flags, cycle, lists, enumerated, cycle_failure>>
    /\ UNCHANGED <<reqVars, pageVars, fanVars, laterVars>>

\* fetch returns; the loop announces the wait and sleeps.
FetchReturn ==
    /\ loop_pc = "fetch"
    /\ step = End
    /\ loop_pc' = "sleep"
    /\ UNCHANGED <<flags, cycle, step, lists, enumerated, sampled, registry,
                   cycle_failure>>
    /\ UNCHANGED <<reqVars, pageVars, fanVars, laterVars>>

\* time.sleep(self.polling_interval_seconds) returns.
SleepEnd ==
    /\ loop_pc = "sleep"
    /\ loop_pc' = "while"
    /\ UNCHANGED <<flags, cycle, step, lists, enumerated, sampled, registry,
                   cycle_failure>>
    /\ UNCHANGED <<reqVars, pageVars, fanVars, laterVars>>

InitLoop ==
    /\ RequestIdle /\ PagesIdle /\ FanOutIdle /\ LaterIdle
    /\ loop_pc = "while"
    /\ flags \in [Flags -> BOOLEAN]
    /\ cycle = 0
    /\ step = End
    /\ lists = [k \in Kinds |-> <<>>]
    /\ enumerated = <<>>
    /\ sampled = {}
    /\ registry = [f \in Families |-> 0]
    /\ cycle_failure = "none"

NextLoop ==
    \/ FetchBegin
    \/ \E n \in 0..MaxListed : Enumerate(n)
    \/ EnumerateRaises
    \/ \E ok \in SUBSET Listed : Sample(ok)
    \/ FetchReturn
    \/ SleepEnd

SpecLoop == InitLoop /\ [][NextLoop]_vars

(***************************************************************************)
(* The gauges of NutanixMetrics: registration in __init__, lookups in fetch *)
(***************************************************************************)

CatalogFlags == {"prism_central_metrics", "cluster_metrics", "hosts_metrics",
                 "storage_containers_metrics", "disks_metrics", "volumes_metrics"}

\* f"nutanix_clustermgmt_{class_snake_case_name}_{stat}" for the stats of a
\* clustermgmt stats class.  The attributes of the SDK classes are represented
\* by two stat names, the same ones the stats responses of fetch carry.
StatsKeys(class_snake_case_name) ==
    << "nutanix_clustermgmt_" \o class_snake_case_name \o "_controller_num_iops",
       "nutanix_clustermgmt_" \o class_snake_case_name \o "_hypervisor_cpu_usage_ppm" >>

\* The attribute names __init__ sets with setattr, in the order of the calls,
\* for the flags fl (the Prism Central and the clusters regions).
Registrations(fl) ==
    LET pc_key_strings ==
            << "nutanix_count_vg", "nutanix_count_vm", "nutanix_count_vm_on",
               "nutanix_count_vm_off", "nutanix_count_vm_boot_legacy",
               "nutanix_count_vm_boot_uefi", "nutanix_count_vm_gpus",
               "nutanix_count_vm_unprotected", "nutanix_count_vm_pd_protected",
               "nutanix_count_vm_rule_protected", "nutanix_count_vcpu",
               "nutanix_count_vram_mib", "nutanix_count_vdisk",
               "nutanix_count_vdisk_ide", "nutanix_count_vdisk_sata",
               "nutanix_count_vdisk_scsi", "nutanix_count_vnic", "nutanix_count_node",
               "nutanix_count_storage_container",
               "nutanix_count_storage_container_encrypted",
               "nutanix_count_storage_container_rf1",
               "nutanix_count_storage_container_rf2",
               "nutanix_count_storage_container_rf3", "nutanix_count_ngt_installed",
               "nutanix_count_ngt_enabled", "nutanix_count_ngt_reachable",
               "nutanix_count_ngt_vss_snapshot_capabale", "nutanix_count_subnet" >>
        unique_pc_key_strings ==
            << "nutanix_count_cluster", "nutanix_count_subnet_overlay",
               "nutanix_count_vpc", "nutanix_count_subnet_vlan",
               "nutanix_count_subnet_external", "nutanix_count_subnet_vlan_basic",
               "nutanix_count_subnet_vlan_advanced", "nutanix_count_bgp_session",
               "nutanix_count_gateway", "nutanix_count_layer2_stretch",
               "nutanix_count_load_balancer_session",
               "nutanix_count_network_controller", "nutanix_count_routing_policy",
               "nutanix_count_traffic_mirror", "nutanix_count_uplink_bond",
               "nutanix_count_virtual_switch", "nutanix_count_vpn_connection",
               "nutanix_count_files_server", "nutanix_count_files_unified_namespace",
               "nutanix_count_objects_object_stores" >>
        key_strings ==
            << "nutanix_count_vm", "nutanix_count_vm_on", "nutanix_count_vm_off",
               "nutanix_count_vm_boot_legacy", "nutanix_count_vm_boot_uefi",
               "nutanix_count_vm_gpus", "nutanix_count_vm_unprotected",
               "nutanix_count_vm_pd_protected", "nutanix_count_vm_rule_protected",
               "nutanix_count_vcpu", "nutanix_count_vram_mib", "nutanix_count_vdisk",
               "nutanix_count_vdisk_ide", "nutanix_count_vdisk_sata",
               "nutanix_count_vdisk_scsi", "nutanix_count_vnic", "nutanix_count_disk",
               "nutanix_count_disk_ssd_pcie", "nutanix_count_disk_ssd_sata",
               "nutanix_count_disk_das_sata", "nutanix_count_disk_ssd_mem_nvme",
               "nutanix_count_ngt_installed", "nutanix_count_ngt_enabled",
               "nutanix_count_ngt_reachable",
               "nutanix_count_ngt_vss_snapshot_capabale" >>
        cluster_unique_key_strings ==
            << "nutanix_count_vg", "nutanix_count_node",
               "nutanix_count_storage_container",
               "nutanix_count_storage_container_encrypted",
               "nutanix_count_storage_container_rf1",
               "nutanix_count_storage_container_rf2",
               "nutanix_count_storage_container_rf3", "nutanix_count_subnet" >>
    IN  (IF fl["prism_central_metrics"] THEN unique_pc_key_strings ELSE <<>>)
        \o (IF fl["prism_central_metrics"] /\ ~fl["cluster_metrics"]
            THEN pc_key_strings ELSE <<>>)
        \o (IF fl["cluster_metrics"]
            THEN StatsKeys("host_stats") \o StatsKeys("cluster_stats")
                 \o (IF fl["storage_containers_metrics"]
                     THEN StatsKeys("storage_container_stats") ELSE <<>>)
                 \o (IF fl["disks_metrics"] THEN StatsKeys("disk_stats") ELSE <<>>)
                 \o key_strings \o cluster_unique_key_strings \o << "nutanix_cluster" >>
            ELSE <<>>)

\* The lookups self.__dict__[key] of fetch, in the order of the source: the
\* flags the statement is under, whether it is in the body of a loop over
\* entities or metrics, and the keys it looks up.
Lookups ==
    LET VmKeys ==
            << "nutanix_count_vm", "nutanix_count_vm_on", "nutanix_count_vm_off",
               "nutanix_count_vm_boot_legacy", "nutanix_count_vm_boot_uefi",
               "nutanix_count_vm_gpus", "nutanix_count_vm_unprotected",
               "nutanix_count_vm_pd_protected", "nutanix_count_vm_rule_protected",
               "nutanix_count_vcpu", "nutanix_count_vram_mib", "nutanix_count_vdisk",
               "nutanix_count_vdisk_ide", "nutanix_count_vdisk_sata",
               "nutanix_count_vdisk_scsi", "nutanix_count_vnic",
               "nutanix_count_ngt_installed", "nutanix_count_ngt_enabled",
               "nutanix_count_ngt_reachable",
               "nutanix_count_ngt_vss_snapshot_capabale" >>
        ContainerKeys ==
            << "nutanix_count_storage_container",
               "nutanix_count_storage_container_encrypted",
               "nutanix_count_storage_container_rf1",
               "nutanix_count_storage_container_rf2",
               "nutanix_count_storage_container_rf3" >>
        DiskKeys ==
            << "nutanix_count_disk", "nutanix_count_disk_ssd_pcie",
               "nutanix_count_disk_ssd_sata", "nutanix_count_disk_das_sata",
               "nutanix_count_disk_ssd_mem_nvme" >>
        SubnetKeys ==
            << "nutanix_count_subnet", "nutanix_count_subnet_vlan",
               "nutanix_count_subnet_vlan_basic", "nutanix_count_subnet_vlan_advanced",
               "nutanix_count_subnet_overlay", "nutanix_count_subnet_external" >>
        Under(fs, loop, keys) == [flags |-> fs, loop |-> loop, keys |-> keys]
    IN  << Under({"prism_central_metrics", "volumes_metrics"}, FALSE,
                 << "nutanix_count_vg" >>),
           Under({"prism_central_metrics"}, FALSE,
                 VmKeys \o << "nutanix_count_cluster", "nutanix_count_node" >>
                 \o ContainerKeys \o SubnetKeys),
           Under({"cluster_metrics"}, TRUE, StatsKeys("cluster_stats")),
           Under({"cluster_metrics"}, TRUE,
                 << "nutanix_count_vg" >> \o VmKeys \o << "nutanix_count_node" >>
                 \o ContainerKeys \o DiskKeys \o << "nutanix_count_subnet" >>),
           Under({"hosts_metrics"}, TRUE, StatsKeys("host_stats")),
           Under({"hosts_metrics"}, TRUE, VmKeys \o DiskKeys),
           Under({"storage_containers_metrics"}, TRUE,
                 StatsKeys("storage_container_stats")),
           Under({"disks_metrics"}, TRUE, StatsKeys("disk_stats")) >>

\* while True: self.fetch() -- the next cycle starts.
CatalogFetchBegin ==
    /\ cat_pc \in {"while", "returned"}
    /\ cat_pc' = "fetch"
    /\ lookup' = 1
    /\ UNCHANGED <<enabled, registered, looked_up, history>>
    /\ UNCHANGED <<reqVars, pageVars, fanVars, loopVars, gaugeVars>>

\* The publish statement at lookup.  It runs when its flags are set and, in a
\* loop, when the list it iterates has an entity (entities).  Its keys are
\* looked up in order; the first one that is no attribute of self raises
\* KeyError, which nothing in fetch or run_metrics_loop catches.
PublishLookup(entities) ==
    /\ cat_pc = "fetch"
    /\ lookup <= Len(Lookups)
    /\ LET g == Lookups[lookup]
           runs == (\A f \in g.flags : enabled[f]) /\ (g.loop => entities)
           missing == {i \in 1..Len(g.keys) : g.keys[i] \notin registered}
           first == CHOOSE i \in missing : \A j \in missing : i <= j
       IN  IF ~runs
           THEN lookup' = lookup + 1 /\ UNCHANGED <<cat_pc, looked_up>>
           ELSE IF missing = {}
           THEN /\ looked_up' = looked_up \cup Elements(g.keys)
                /\ lookup' = lookup + 1
                /\ UNCHANGED cat_pc
           ELSE /\ looked_up' = looked_up \cup {g.keys[i] : i \in 1..first}
                /\ cat_pc' = "raised"
                /\ UNCHANGED lookup
    /\ UNCHANGED <<enabled, registered, history>>
    /\ UNCHANGED <<reqVars, pageVars, fanVars, loopVars, gaugeVars>>

\* fetch returns after its last publish statement.
CatalogFetchReturn ==
    /\ cat_pc = "fetch"
    /\ lookup = Len(Lookups) + 1
    /\ cat_pc' = "returned"
    /\ UNCHANGED <<enabled, registered, lookup, looked_up, history>>
    /\ UNCHANGED <<reqVars, pageVars, fanVars, loopVars, gaugeVars>>

\* The state after NutanixMetrics.__init__, for every combination of the flags.
InitCatalog ==
    /\ RequestIdle /\ PagesIdle /\ FanOutIdle /\ LoopIdle /\ GaugesIdle
    /\ cat_pc = "while"
    /\ enabled \in [CatalogFlags -> BOOLEAN]
    /\ registered = Elements(Registrations(enabled))
    /\ lookup = 0
    /\ looked_up = {}
    /\ history = <<>>

NextCatalog ==
    \/ CatalogFetchBegin
    \/ \E entities \in BOOLEAN : PublishLookup(entities)
    \/ CatalogFetchReturn

SpecCatalog == InitCatalog /\ [][NextCatalog]_vars

(***************************************************************************)
(* The count region of the clusters region of NutanixMetrics.fetch         *)
(***************************************************************************)

\* Names are sequences of characters.
ClusterNames == {<<"A">>, <<"B", "-", "1">>}

\* The lists list_clusters can return: ext_id is unique, name is not; a
\* cluster is a Prism Central one by its config.cluster_function.
ClusterLists ==
    {l \in UNION {[1..n -> [ext_id : 1..MaxListed, name : ClusterNames,
                            cluster_function : {{"AOS"}, {"PRISM_CENTRAL"}}]]
                  : n \in 0..MaxListed} :
        \A i \in 1..Len(l) : l[i].ext_id = i}

\* The lists list_vms can return: a VM refers to its cluster by ext_id, which
\* may be the one of a cluster that is not in cluster_list.
VmLists ==
    UNION {[1..n -> [cluster_ext_id : 1..(MaxListed + 1), power_state : {"ON", "OFF"}]]
           : n \in 0..MaxVms}

\* self.__dict__[key].labels(entity=label).set(value)
Set(gs, key, label, value) ==
    [cell \in DOMAIN gs \cup {<<key, label>>} |->
        IF cell = <<key, label>> THEN value ELSE gs[cell]]

RECURSIVE SetAll(_, _)
SetAll(gs, writes) ==
    IF writes = <<>> THEN gs
    ELSE SetAll(Set(gs, writes[1].key, writes[1].label, writes[1].value), Tail(writes))

\* A plausible bug: no VM of the cluster, no write.
ClusterVmCountsOmitEmpty(cluster, vms) ==
    LET cluster_vms_list ==
            SelectSeq(vms, LAMBDA vm : vm.cluster_ext_id = cluster.ext_id)
        Write(key, value) ==
            [key |-> key, label |-> cluster.name, value |-> value,
             ext_id |-> cluster.ext_id]
    IN  IF cluster_vms_list = <<>> THEN <<>>
        ELSE << Write("nutanix_count_vm", Len(cluster_vms_list)),
                Write("nutanix_count_vm_on",
                      Len(SelectSeq(cluster_vms_list, LAMBDA vm : vm.power_state = "ON"))),
                Write("nutanix_count_vm_off",
                      Len(SelectSeq(cluster_vms_list, LAMBDA vm : vm.power_state = "OFF"))) >>

\* The body of "for cluster in cluster_list" of the vm count region: the VMs
\* of the cluster by ext_id, and the writes of the first three VM count gauges
\* under the name of the cluster.
ClusterVmCounts(cluster, vms) ==
    LET cluster_vms_list ==
            SelectSeq(vms, LAMBDA vm : vm.cluster_ext_id = cluster.ext_id)
        Write(key, value) ==
            [key |-> key, label |-> cluster.name, value |-> value,
             ext_id |-> cluster.ext_id]
    IN  << Write("nutanix_count_vm", Len(cluster_vms_list)),
           Write("nutanix_count_vm_on",
                 Len(SelectSeq(cluster_vms_list, LAMBDA vm : vm.power_state = "ON"))),
           Write("nutanix_count_vm_off",
                 Len(SelectSeq(cluster_vms_list, LAMBDA vm : vm.power_state = "OFF"))) >>

\* fetch is called; cluster_list and vms_list are what v4_get_all_entities
\* returned for this cycle when the vm count region is reached.
AggregateBegin(clusters, vms) ==
    /\ g_pc = "while"
    /\ g_cycle' = g_cycle + 1
    /\ cluster_list' = clusters
    /\ vms_list' = vms
    /\ g_i' = 1
    /\ g_writes' = <<>>
    /\ g_pc' = "vm_count"
    /\ UNCHANGED <<host_list, g_kind, g_details, g_metrics, gauges>>
    /\ UNCHANGED <<reqVars, pageVars, fanVars, loopVars, catVars>>

\* One iteration of the for loop over cluster_list.
AggregateCluster ==
    /\ g_pc = "vm_count"
    /\ g_i <= Len(cluster_list)
    /\ LET cluster == cluster_list[g_i]
           writes == IF "PRISM_CENTRAL" \notin cluster.cluster_function
                     THEN ClusterVmCounts(cluster, vms_list)
                     ELSE <<>>
       IN  /\ g_writes' = g_writes \o writes
           /\ gauges' = SetAll(gauges, writes)
    /\ g_i' = g_i + 1
    /\ UNCHANGED <<g_pc, g_cycle, cluster_list, vms_list, host_list, g_kind, g_details, g_metrics>>
    /\ UNCHANGED <<reqVars, pageVars, fanVars, loopVars, catVars>>

\* The for loop is left and fetch returns.
AggregateReturn ==
    /\ g_pc = "vm_count"
    /\ g_i = Len(cluster_list) + 1
    /\ g_pc' = "returned"
    /\ UNCHANGED <<g_cycle, cluster_list, vms_list, host_list, g_kind, g_details, g_metrics,
                   g_i, g_writes, gauges>>
    /\ UNCHANGED <<reqVars, pageVars, fanVars, loopVars, catVars>>

InitAggregate ==
    /\ RequestIdle /\ PagesIdle /\ FanOutIdle /\ LoopIdle /\ CatalogIdle
    /\ g_pc = "while"
    /\ g_cycle = 0
    /\ cluster_list = <<>>
    /\ vms_list = <<>>
    /\ host_list = <<>>
    /\ g_kind = "none"
    /\ g_details = <<>>
    /\ g_metrics = <<>>
    /\ g_i = 0
    /\ g_writes = <<>>
    /\ gauges = <<>>

NextAggregate ==
    \/ /\ g_pc = "while"
       /\ \E clusters \in ClusterLists, vms \in VmLists : AggregateBegin(clusters, vms)
    \/ AggregateCluster
    \/ AggregateReturn

SpecAggregate == InitAggregate /\ [][NextAggregate]_vars

(***************************************************************************)
(* The stats regions of NutanixMetrics.fetch: fan-out, triples, labels     *)
(***************************************************************************)

\* The lists list_hosts and list_storage_containers can return: the name of an
\* entity and the name of its cluster; ext_id is unique, names are not.
ChildLists ==
    {l \in UNION {[1..n -> [ext_id : 1..MaxListed,
                            name : {<<"e">>, <<"e", ".", "1">>},
                            cluster_name : ClusterNames]]
                  : n \in 0..MaxListed} :
        \A i \in 1..Len(l) : l[i].ext_id = i}

\* <kind>_details_list as the region of the kind builds it from the list.
Details(kind, list) ==
    IF kind = "cluster"
    THEN LET listed == SelectSeq(list, LAMBDA entity :
                                 "PRISM_CENTRAL" \notin entity.cluster_function)
         IN  [i \in 1..Len(listed) |->
                 [entity_name |-> listed[i].name, entity_uuid |-> listed[i].ext_id]]
    ELSE IF kind = "storage_container"
    THEN [i \in 1..Len(list) |->
             [entity_name |-> list[i].name, entity_uuid |-> list[i].ext_id,
              parent_name |-> list[i].cluster_name]]
    ELSE [i \in 1..Len(list) |->
             [entity_name |-> list[i].name, entity_uuid |-> list[i].ext_id]]

\* str.replace(old, new) for one-character old and new.
Replace(s, old, new) == [i \in 1..Len(s) |-> IF s[i] = old THEN new ELSE s[i]]

\* A plausible bug: the second replace is missing.
SanitizeDotsOnly(s) == Replace(s, ".", "_")

\* entity = entity.replace(".","_"); entity = entity.replace("-","_")
Sanitize(s) == Replace(Replace(s, ".", "_"), "-", "_")

\* f"{key_string}:{entity['entity_name']}:{metric_data[0]['value']}" -- the key
\* and the value are one element of the string each.
MetricToReturn(key_string, entity, value) ==
    <<key_string, ":">> \o entity.entity_name \o <<":", value>>

\* metric.split(':')
RECURSIVE Split(_)
Split(s) ==
    LET colons == {i \in 1..Len(s) : s[i] = ":"}
        first == CHOOSE i \in colons : \A j \in colons : i <= j
    IN  IF colons = {} THEN <<s>>
        ELSE <<SubSeq(s, 1, first - 1)>> \o Split(SubSeq(s, first + 1, Len(s)))

\* The orders in which the futures of n tasks that return can complete; a task
\* that is not in the order raised and was caught by the as_completed loop.
Orders(n) ==
    {o \in UNION {[1..k -> 1..n] : k \in 0..n} :
        \A i, j \in 1..Len(o) : o[i] = o[j] => i = j}

RECURSIVE Collected(_, _, _, _)
Collected(kind, details, order, c) ==
    IF order = <<>> THEN <<>>
    ELSE << MetricToReturn(StatsKeys(kind \o "_stats")[1], details[order[1]],
                           ToString(10 * details[order[1]].entity_uuid + c)) >>
         \o Collected(kind, details, Tail(order), c)

\* fetch is called and the stats region of the kind is reached with the list
\* v4_get_all_entities returned in this cycle.
StatsBegin(list) ==
    /\ g_pc \in {"while", "returned"}
    /\ g_cycle < MaxCycles
    /\ g_cycle' = g_cycle + 1
    /\ g_details' = Details(g_kind, list)
    /\ g_metrics' = <<>>
    /\ g_writes' = <<>>
    /\ g_i' = 1
    /\ g_pc' = "fan_out"
    /\ UNCHANGED <<cluster_list, vms_list, host_list, g_kind, gauges>>
    /\ UNCHANGED <<reqVars, pageVars, fanVars, loopVars, catVars>>

\* The fan-out of the region: metrics is extended by the triples of the tasks
\* that returned, in the order their futures completed.
CollectStats(order) ==
    /\ g_pc = "fan_out"
    /\ g_metrics' = Collected(g_kind, g_details, order, g_cycle)
    /\ g_pc' = "publish"
    /\ UNCHANGED <<g_cycle, cluster_list, vms_list, host_list, g_kind, g_details, g_i, g_writes,
                   gauges>>
    /\ UNCHANGED <<reqVars, pageVars, fanVars, loopVars, catVars>>

\* One iteration of "for metric in metrics": the triple is split, the label is
\* the entity name (clusters, hosts) or the sanitized name of the cluster of
\* the first descriptor of that name, "_" and the name (storage containers).
PublishMetric ==
    /\ g_pc = "publish"
    /\ g_i <= Len(g_metrics)
    /\ LET parts == Split(g_metrics[g_i])
           entity == parts[2]
           named == SelectSeq(g_details, LAMBDA d : d.entity_name = entity)
           label == IF g_kind = "storage_container"
                    THEN Sanitize(named[1].parent_name \o <<"_">> \o entity)
                    ELSE entity
       IN  IF Len(parts) # 3 \/ (g_kind = "storage_container" /\ named = <<>>)
           THEN /\ g_pc' = "raised"
                /\ UNCHANGED <<g_i, g_writes, gauges>>
           ELSE /\ g_writes' = Append(g_writes, [key |-> parts[1], label |-> label,
                                                 value |-> parts[3]])
                /\ gauges' = Set(gauges, parts[1], label, parts[3])
                /\ g_i' = g_i + 1
                /\ UNCHANGED g_pc
    /\ UNCHANGED <<g_cycle, cluster_list, vms_list, host_list, g_kind, g_details, g_metrics>>
    /\ UNCHANGED <<reqVars, pageVars, fanVars, loopVars, catVars>>

\* The for loop is left; fetch returns and the loop sleeps.
StatsReturn ==
    /\ g_pc = "publish"
    /\ g_i = Len(g_metrics) + 1
    /\ g_pc' = "returned"
    /\ UNCHANGED <<g_cycle, cluster_list, vms_list, host_list, g_kind, g_details, g_metrics, g_i,
                   g_writes, gauges>>
    /\ UNCHANGED <<reqVars, pageVars, fanVars, loopVars, catVars>>

InitPublish ==
    /\ RequestIdle /\ PagesIdle /\ FanOutIdle /\ LoopIdle /\ CatalogIdle
    /\ g_pc = "while"
    /\ g_cycle = 0
    /\ cluster_list = <<>>
    /\ vms_list = <<>>
    /\ host_list = <<>>
    /\ g_kind \in {"cluster", "host", "storage_container"}
    /\ g_details = <<>>
    /\ g_metrics = <<>>
    /\ g_i = 0
    /\ g_writes = <<>>
    /\ gauges = <<>>

NextPublish ==
    \/ \E list \in (IF g_kind = "cluster" THEN ClusterLists ELSE ChildLists) :
           StatsBegin(list)
    \/ \E order \in Orders(Len(g_details)) : CollectStats(order)
    \/ PublishMetric
    \/ StatsReturn

SpecPublish == InitPublish /\ [][NextPublish]_vars

\* The entity names of at most MaxLen characters, and the names "a.b-c" and
\* "a:b".
Strings ==
    UNION {[1..n -> {"a", ".", "-", "_"}] : n \in 0..MaxLen}
        \cup {<<"a", ".", "b", "-", "c">>, <<"a", ":", "b">>}

\* The stats regions for a list of one entity of any name, for one cycle.
NextLabels ==
    \/ /\ g_cycle = 0
       /\ \E s \in Strings, p \in ClusterNames :
              StatsBegin(<<[ext_id |-> 1, name |-> s, cluster_name |-> p,
                            cluster_function |-> {"AOS"}]>>)
    \/ \E order \in Orders(Len(g_details)) : CollectStats(order)
    \/ PublishMetric
    \/ StatsReturn

SpecLabels == InitPublish /\ [][NextLabels]_vars

(***************************************************************************)
(* The Prism Central counts of NutanixMetricsLegacy.fetch                  *)
(***************************************************************************)

\* What the POST of a count probe or of a batch can end in: it raises a
\* RequestException (ok is FALSE) or answers with total_matches entities.
PostOutcomes ==
    {[ok |-> FALSE, total_matches |-> 0]} \cup [ok : {TRUE}, total_matches : 0..MaxTotal]

\* get_total_entities: total_matches of the answer, 0 when the request raised.
GetTotalEntities(outcome) == IF outcome.ok THEN outcome.total_matches ELSE 0

\* The requests of the Prism Central region: the two count probes, and the
\* batches of get_entities_batch (one batch of 500 covers the VMs of the model;
\* a batch whose request raised gives no entity).
LegacyCollect(vm_probe, vg_probe, batch_ok) ==
    /\ g_pc \in {"while", "returned"}
    /\ g_cycle < MaxCycles
    /\ g_cycle' = g_cycle + 1
    /\ LET vm_count == GetTotalEntities(vm_probe)
       IN  g_details' = [vm_probe |-> vm_probe, vg_probe |-> vg_probe,
                         vg_count |-> GetTotalEntities(vg_probe),
                         vm_details |-> IF batch_ok THEN vm_count ELSE 0]
    /\ g_writes' = <<>>
    /\ g_pc' = "legacy_publish"
    /\ UNCHANGED <<cluster_list, vms_list, host_list, g_kind, g_metrics, g_i, gauges>>
    /\ UNCHANGED <<reqVars, pageVars, fanVars, loopVars, catVars>>

\* The writes of nutanix_count_vg and nutanix_count_vm; fetch returns.
LegacyPublish ==
    /\ g_pc = "legacy_publish"
    /\ LET writes == << [key |-> "nutanix_count_vg", label |-> "prism_central_hostname",
                         value |-> g_details.vg_count],
                        [key |-> "nutanix_count_vm", label |-> "prism_central_hostname",
                         value |-> g_details.vm_details] >>
       IN  /\ g_writes' = writes
           /\ gauges' = SetAll(gauges, writes)
    /\ g_pc' = "returned"
    /\ UNCHANGED <<g_cycle, cluster_list, vms_list, host_list, g_kind, g_details, g_metrics, g_i>>
    /\ UNCHANGED <<reqVars, pageVars, fanVars, loopVars, catVars>>

InitLegacy ==
    /\ RequestIdle /\ PagesIdle /\ FanOutIdle /\ LoopIdle /\ CatalogIdle
    /\ g_pc = "while"
    /\ g_cycle = 0
    /\ cluster_list = <<>>
    /\ vms_list = <<>>
    /\ host_list = <<>>
    /\ g_kind = "prism_central"
    /\ g_details = <<>>
    /\ g_metrics = <<>>
    /\ g_i = 0
    /\ g_writes = <<>>
    /\ gauges = <<>>

NextLegacy ==
    \/ \E vm_probe \in PostOutcomes, vg_probe \in PostOutcomes, batch_ok \in BOOLEAN :
           LegacyCollect(vm_probe, vg_probe, batch_ok)
    \/ LegacyPublish

SpecLegacy == InitLegacy /\ [][NextLegacy]_vars

(***************************************************************************)
(* v4_get_entity_stats: from the stats payload to the triples              *)
(***************************************************************************)

exclude_list == {"timestamp", "_reserved", "_object_type", "_unknown_fields", "ext_id",
                 "links", "container_ext_id", "tenant_id", "stat_type", "cluster",
                 "hypervisor_type", "volume_group_ext_id", "volume_disk_ext_id"}

lb_stats == {"listener_stats", "target_stats"}

\* The prefixes of the model: one whose records are mappings with a value, and
\* the one whose records are taken as they are (line 3005).
Prefixes == {"nutanix_clustermgmt_cluster_stats_", "nutanix_networking_vpc_ns_stats_"}

\* What response.data.to_dict() can be for a prefix other than
\* nutanix_vmm_ahv_stats_vm_: the fields in the order of the mapping, with
\* distinct names; a field is None or a list of no, one or two sample records.
Payloads(metric_key_prefix) ==
    LET Lists == IF metric_key_prefix = "nutanix_networking_vpc_ns_stats_"
                 THEN {<<>>, <<1>>, <<2, 1>>}
                 ELSE {<<>>, <<[value |-> 1]>>, <<[value |-> 2], [value |-> 1]>>}
        Data == {[none |-> TRUE, list |-> <<>>]} \cup [none : {FALSE}, list : Lists]
        Names == {"controller_num_iops", "hypervisor_cpu_usage_ppm", "ext_id",
                  "listener_stats"}
    IN  {p \in UNION {[1..n -> [metric : Names, metric_data : Data]] : n \in 0..MaxFields} :
            \A i, j \in 1..Len(p) : p[i].metric = p[j].metric => i = j}

\* A plausible bug: the value of the last record is taken.
FirstRecordLast(metric_data) == metric_data[Len(metric_data)]

\* metric_data[0]
FirstRecord(metric_data) == metric_data[1]

\* The task of the entity runs v4_get_entity_stats; the statistics call has
\* answered with the payload (the local variable metrics).
SampleBegin(metric_key_prefix, entity_name, payload) ==
    /\ g_pc = "while"
    /\ g_kind' = metric_key_prefix
    /\ g_details' = [entity |-> [entity_name |-> entity_name, entity_uuid |-> 1],
                     metrics |-> payload]
    /\ g_metrics' = <<>>
    /\ g_i' = 1
    /\ g_pc' = "for_metric"
    /\ UNCHANGED <<g_cycle, cluster_list, vms_list, host_list, g_writes, gauges>>
    /\ UNCHANGED <<reqVars, pageVars, fanVars, loopVars, catVars>>

\* One iteration of "for metric in metrics" (lines 2991-3008).  metric_data[0]
\* of an empty list raises IndexError, which leaves the function.  The keys of
\* to_dict() are attribute names, which the two replaces leave as they are.
SampleField ==
    /\ g_pc = "for_metric"
    /\ g_i <= Len(g_details.metrics)
    /\ LET metric == g_details.metrics[g_i].metric
           metric_data == g_details.metrics[g_i].metric_data
           key_string == g_kind \o metric
           value == IF g_kind = "nutanix_networking_vpc_ns_stats_"
                    THEN FirstRecord(metric_data.list)
                    ELSE FirstRecord(metric_data.list).value
       IN  IF metric \in exclude_list \/ metric \in lb_stats \/ metric_data.none
           THEN g_i' = g_i + 1 /\ UNCHANGED <<g_pc, g_metrics>>
           ELSE IF metric_data.list = <<>>
           THEN g_pc' = "raised" /\ UNCHANGED <<g_i, g_metrics>>
           ELSE /\ g_metrics' = Append(g_metrics,
                                       MetricToReturn(key_string, g_details.entity,
                                                      ToString(value)))
                /\ g_i' = g_i + 1
                /\ UNCHANGED g_pc
    /\ UNCHANGED <<g_cycle, cluster_list, vms_list, host_list, g_kind, g_details, g_writes, gauges>>
    /\ UNCHANGED <<reqVars, pageVars, fanVars, loopVars, catVars>>

\* return metrics_list
SampleReturn ==
    /\ g_pc = "for_metric"
    /\ g_i = Len(g_details.metrics) + 1
    /\ g_pc' = "returned"
    /\ UNCHANGED <<g_cycle, cluster_list, vms_list, host_list, g_kind, g_details, g_metrics, g_i,
                   g_writes, gauges>>
    /\ UNCHANGED <<reqVars, pageVars, fanVars, loopVars, catVars>>

InitSampler ==
    /\ RequestIdle /\ PagesIdle /\ FanOutIdle /\ LoopIdle /\ CatalogIdle
    /\ g_pc = "while"
    /\ g_cycle = 0
    /\ cluster_list = <<>>
    /\ vms_list = <<>>
    /\ host_list = <<>>
    /\ g_kind = "none"
    /\ g_details = <<>>
    /\ g_metrics = <<>>
    /\ g_i = 0
    /\ g_writes = <<>>
    /\ gauges = <<>>

NextSampler ==
    \/ /\ g_pc = "while"
       /\ \E metric_key_prefix \in Prefixes, entity_name \in ClusterNames :
              \E payload \in Payloads(metric_key_prefix) :
                  SampleBegin(metric_key_prefix, entity_name, payload)
    \/ SampleField
    \/ SampleReturn

SpecSampler == InitSampler /\ [][NextSampler]_vars

(***************************************************************************)
(* main: the constructors of the collectors and the start of the loop      *)
(***************************************************************************)

\* The flags of NutanixMetricsLegacy.__init__; vm_list stands for a non-empty
\* VM_LIST and vm_found for prism_get_vm finding its first VM.
LegacyFlags == {"cluster_metrics", "vm_list", "vm_found", "storage_containers_metrics",
                "ipmi_metrics", "prism_central_metrics", "ncm_ssp_metrics"}

Did(op, what) == [op |-> op, what |-> what]

\* The requests and registrations of NutanixMetricsLegacy.__init__ in the
\* order of the source.  The stats gauges are named after the keys of the
\* answers of the requests, represented by two keys each.
LegacyInit(fl) ==
    LET Register(names) == [i \in 1..Len(names) |-> Did("register", names[i])]
        Stats(prefix) == << prefix \o "controller_num_iops",
                            prefix \o "hypervisor_cpu_usage_ppm" >>
        cluster_key_strings ==
            << "nutanix_count_vg", "nutanix_count_vm", "nutanix_count_vm_on",
               "nutanix_count_vm_off", "nutanix_count_vcpu", "nutanix_count_vram_mib",
               "nutanix_count_vdisk", "nutanix_count_vdisk_ide",
               "nutanix_count_vdisk_sata", "nutanix_count_vdisk_scsi",
               "nutanix_count_vnic" >>
        ipmi_key_strings ==
            << "nutanix_power_consumption_power_consumed_watts",
               "nutanix_power_consumption_min_consumed_watts",
               "nutanix_power_consumption_max_consumed_watts",
               "nutanix_power_consumption_average_consumed_watts",
               "nutanix_thermal_cpu_temp_celsius", "nutanix_thermal_pch_temp_celcius",
               "nutanix_thermal_system_temp_celcius",
               "nutanix_thermal_peripheral_temp_celcius",
               "nutanix_thermal_inlet_temp_celcius" >>
        pc_key_strings ==
            cluster_key_strings
            \o << "nutanix_count_category", "nutanix_count_vm_protected",
                  "nutanix_count_vm_protected_compliant",
                  "nutanix_count_vm_protected_synced", "nutanix_count_ngt_installed",
                  "nutanix_count_ngt_enabled" >>
        ncm_key_strings ==
            << "nutanix_ncm_count_applications",
               "nutanix_ncm_count_applications_provisioning",
               "nutanix_ncm_count_applications_running",
               "nutanix_ncm_count_applications_error",
               "nutanix_ncm_count_applications_deleting", "nutanix_ncm_count_blueprints",
               "nutanix_ncm_count_runbooks", "nutanix_ncm_count_projects",
               "nutanix_ncm_count_marketplace_items" >>
    IN  (IF fl["cluster_metrics"]
         THEN << Did("request", "prism_get_cluster"), Did("request", "prism_get_hosts") >>
              \o Register(Stats("nutanix_host_stats_") \o Stats("nutanix_host_usage_stats_")
                          \o Stats("nutanix_cluster_stats_")
                          \o Stats("nutanix_cluster_usage_stats_")
                          \o cluster_key_strings \o << "nutanix_cluster" >>)
         ELSE <<>>)
        \o (IF fl["vm_list"]
            THEN << Did("request", "prism_get_vm") >>
                 \o (IF fl["vm_found"]
                     THEN Register(Stats("nutanix_vms_stats_")
                                   \o Stats("nutanix_vms_usage_stats_"))
                     ELSE << Did("exit", "1") >>)
            ELSE <<>>)
        \o (IF fl["storage_containers_metrics"]
            THEN << Did("request", "prism_get_storage_containers") >>
                 \o Register(Stats("nutanix_storage_container_stats_")
                             \o Stats("nutanix_storage_container_usage_stats_"))
            ELSE <<>>)
        \o (IF fl["ipmi_metrics"] THEN Register(ipmi_key_strings) ELSE <<>>)
        \o (IF fl["prism_central_metrics"] THEN Register(pc_key_strings) ELSE <<>>)
        \o (IF fl["ncm_ssp_metrics"] THEN Register(ncm_key_strings) ELSE <<>>)

\* The steps of the constructor main calls for the operations mode.
Constructor(mode, fl) ==
    IF mode = "legacy" THEN LegacyInit(fl)
    ELSE [i \in 1..Len(Registrations(fl)) |-> Did("register", Registrations(fl)[i])]

\* main reads OPERATIONS_MODE and the flags and calls the constructor.
Main(mode, fl) ==
    /\ cat_pc = "main"
    /\ enabled' = fl
    /\ history' = << Did("main", mode) >>
    /\ lookup' = 1
    /\ cat_pc' = "__init__"
    /\ UNCHANGED <<registered, looked_up>>
    /\ UNCHANGED <<reqVars, pageVars, fanVars, loopVars, gaugeVars>>

\* The next request or setattr of the constructor.  Gauge(...) of a name the
\* registry of prometheus_client already holds raises ValueError.
ConstructorStep ==
    /\ cat_pc = "__init__"
    /\ lookup <= Len(Constructor(history[1].what, enabled))
    /\ LET did == Constructor(history[1].what, enabled)[lookup]
       IN  /\ history' = Append(history, did)
           /\ IF did.op = "exit" \/ (did.op = "register" /\ did.what \in registered)
              THEN cat_pc' = "raised" /\ UNCHANGED <<registered, lookup>>
              ELSE /\ registered' = IF did.op = "register"
                                    THEN registered \cup {did.what} ELSE registered
                   /\ lookup' = lookup + 1
                   /\ UNCHANGED cat_pc
    /\ UNCHANGED <<enabled, looked_up>>
    /\ UNCHANGED <<reqVars, pageVars, fanVars, loopVars, gaugeVars>>

\* The constructor returns; main starts the HTTP server and run_metrics_loop.
ConstructorReturn ==
    /\ cat_pc = "__init__"
    /\ lookup = Len(Constructor(history[1].what, enabled)) + 1
    /\ cat_pc' = "while"
    /\ UNCHANGED <<enabled, registered, lookup, looked_up, history>>
    /\ UNCHANGED <<reqVars, pageVars, fanVars, loopVars, gaugeVars>>

\* while True: self.fetch(); time.sleep(...) -- fetch sends its requests and
\* sets gauge children; it has no setattr and no Gauge(...).
MainFetch ==
    /\ cat_pc = "while"
    /\ Cardinality({i \in 1..Len(history) : history[i] = Did("request", "fetch")})
           < MaxCycles
    /\ history' = Append(history, Did("request", "fetch"))
    /\ UNCHANGED <<cat_pc, enabled, registered, lookup, looked_up>>
    /\ UNCHANGED <<reqVars, pageVars, fanVars, loopVars, gaugeVars>>

InitMain ==
    /\ RequestIdle /\ PagesIdle /\ FanOutIdle /\ LoopIdle /\ GaugesIdle
    /\ cat_pc = "main"
    /\ enabled = <<>>
    /\ registered = {}
    /\ lookup = 0
    /\ looked_up = {}
    /\ history = <<>>

NextMain ==
    \/ /\ cat_pc = "main"
       /\ \/ \E fl \in [CatalogFlags -> BOOLEAN] : Main("v4", fl)
          \/ \E fl \in [LegacyFlags -> BOOLEAN] : Main("legacy", fl)
    \/ ConstructorStep
    \/ ConstructorReturn
    \/ MainFetch

SpecMain == InitMain /\ [][NextMain]_vars

(***************************************************************************)
(* The vm count region of the hosts region of NutanixMetrics.fetch         *)
(***************************************************************************)

\* The lists list_vms can return for one cluster: a VM that is powered on
\* refers to its host by ext_id (possibly one that is not in host_list), a VM
\* that is powered off has no host (host_ext_id 0 stands for vm.host is None).
HostedVmLists ==
    UNION {[1..n -> {[cluster_ext_id |-> 1, host_ext_id |-> 0, power_state |-> "OFF"]}
                    \cup [cluster_ext_id : {1}, host_ext_id : {1, 2},
                          power_state : {"ON"}]]
           : n \in 0..MaxVms}

\* A plausible bug: every VM of the list is counted for every host.
HostVmsAll(host, vms) == vms

\* powered_on_vms_list and host_vms_list of the loop body.
HostVms(host, vms) ==
    LET powered_on_vms_list == SelectSeq(vms, LAMBDA vm : vm.power_state = "ON")
    IN  SelectSeq(powered_on_vms_list, LAMBDA vm : vm.host_ext_id = host.ext_id)

\* The hosts region is reached after the clusters region: host_list is what
\* list_hosts returned in this cycle, and "if not vms_list" enumerates the VMs
\* again when the list is empty.
HostsRegion(hosts, vms) ==
    /\ g_pc = "vm_count"
    /\ g_i = Len(cluster_list) + 1
    /\ host_list' = hosts
    /\ vms_list' = IF vms_list = <<>> THEN vms ELSE vms_list
    /\ g_i' = 1
    /\ g_pc' = "host_vm_count"
    /\ UNCHANGED <<g_cycle, cluster_list, g_kind, g_details, g_metrics, g_writes, gauges>>
    /\ UNCHANGED <<reqVars, pageVars, fanVars, loopVars, catVars>>

\* One iteration of "for host in host_list": the first three VM count gauges
\* are written under the name of the host.
AggregateHost ==
    /\ g_pc = "host_vm_count"
    /\ g_i <= Len(host_list)
    /\ LET host == host_list[g_i]
           host_vms_list == HostVms(host, vms_list)
           Write(key, value) ==
               [key |-> key, label |-> host.name, value |-> value, ext_id |-> host.ext_id]
           writes ==
               << Write("nutanix_count_vm", Len(host_vms_list)),
                  Write("nutanix_count_vm_on",
                        Len(SelectSeq(host_vms_list, LAMBDA vm : vm.power_state = "ON"))),
                  Write("nutanix_count_vm_off",
                        Len(SelectSeq(host_vms_list, LAMBDA vm : vm.power_state = "OFF"))) >>
       IN  /\ g_writes' = g_writes \o writes
           /\ gauges' = SetAll(gauges, writes)
    /\ g_i' = g_i + 1
    /\ UNCHANGED <<g_pc, g_cycle, cluster_list, vms_list, host_list, g_kind, g_details,
                   g_metrics>>
    /\ UNCHANGED <<reqVars, pageVars, fanVars, loopVars, catVars>>

\* The for loop over host_list is left and fetch returns.
HostsReturn ==
    /\ g_pc = "host_vm_count"
    /\ g_i = Len(host_list) + 1
    /\ g_pc' = "returned"
    /\ UNCHANGED <<g_cycle, cluster_list, vms_list, host_list, g_kind, g_details,
                   g_metrics, g_i, g_writes, gauges>>
    /\ UNCHANGED <<reqVars, pageVars, fanVars, loopVars, catVars>>

\* A cycle with cluster_metrics and hosts_metrics, for at most one cluster.
NextJoin ==
    \/ /\ g_pc = "while"
       /\ \E clusters \in {l \in ClusterLists : Len(l) <= 1}, vms \in HostedVmLists :
              AggregateBegin(clusters, vms)
    \/ AggregateCluster
    \/ /\ g_pc = "vm_count"
       /\ \E hosts \in ChildLists, vms \in HostedVmLists : HostsRegion(hosts, vms)
    \/ AggregateHost
    \/ HostsReturn

SpecJoin == InitAggregate /\ [][NextJoin]_vars

(***************************************************************************)
(* The vmm region of NutanixMetrics.fetch for a list of VM names           *)
(***************************************************************************)

\* The VM names of the model.
VmNames == {<<"a">>, <<"b">>, <<"c">>}

\* self.vm_list.split(','): one or two configured names.
VmListArrays == UNION {[1..n -> VmNames] : n \in 1..2}

\* The lists list_vms can return, by name.
NamedVmLists ==
    {l \in UNION {[1..n -> [name : VmNames \ {<<"c">>}, ext_id : 1..MaxVms]]
                  : n \in 0..MaxVms} :
        \A i \in 1..Len(l) : l[i].ext_id = i}

\* next(iter([item.ext_id for item in vms_list if item.name == entity])):
\* the first of the ids, or StopIteration (no value) when there is none.
NextIter(ids) == IF ids = <<>> THEN <<>> ELSE <<ids[1]>>

\* fetch is called with vm_list a list of names, and the vmm region is
\* reached with the list list_vms returned: vm_details_list = [], metrics = [].
VmRegionBegin(vms) ==
    /\ g_pc \in {"while", "returned"}
    /\ g_cycle < MaxCycles
    /\ g_cycle' = g_cycle + 1
    /\ vms_list' = vms
    /\ g_details' = <<>>
    /\ g_metrics' = <<>>
    /\ g_writes' = <<>>
    /\ g_i' = 1
    /\ g_pc' = "vm_details"
    /\ UNCHANGED <<cluster_list, host_list, g_kind, gauges>>
    /\ UNCHANGED <<reqVars, pageVars, fanVars, loopVars, catVars>>

\* One iteration of "for entity in vm_list_array": the descriptor of the name.
\* StopIteration is caught nowhere and leaves fetch.
VmDetails ==
    /\ g_pc = "vm_details"
    /\ g_i <= Len(enabled.vm_list)
    /\ LET entity == enabled.vm_list[g_i]
           named == SelectSeq(vms_list, LAMBDA item : item.name = entity)
           found == NextIter([i \in 1..Len(named) |-> named[i].ext_id])
       IN  IF found = <<>>
           THEN /\ g_pc' = "raised"
                /\ UNCHANGED <<g_details, g_i>>
           ELSE /\ g_details' = Append(g_details, [entity_name |-> entity,
                                                   entity_uuid |-> found[1]])
                /\ g_i' = g_i + 1
                /\ UNCHANGED g_pc
    /\ UNCHANGED <<g_cycle, cluster_list, vms_list, host_list, g_kind, g_metrics,
                   g_writes, gauges>>
    /\ UNCHANGED <<reqVars, pageVars, fanVars, loopVars, catVars>>

\* The fan-out over vm_details_list: metrics is extended by the triples of
\* the tasks that returned, in the order their futures completed.
VmCollectStats(order) ==
    /\ g_pc = "vm_details"
    /\ g_i = Len(enabled.vm_list) + 1
    /\ g_metrics' = [m \in 1..Len(order) |->
           MetricToReturn("nutanix_vmm_ahv_stats_vm_hypervisor_cpu_usage_ppm",
                          g_details[order[m]],
                          ToString(10 * g_details[order[m]].entity_uuid + g_cycle))]
    /\ g_i' = 1
    /\ g_pc' = "publish"
    /\ UNCHANGED <<g_cycle, cluster_list, vms_list, host_list, g_kind, g_details,
                   g_writes, gauges>>
    /\ UNCHANGED <<reqVars, pageVars, fanVars, loopVars, catVars>>

InitVmList ==
    /\ RequestIdle /\ PagesIdle /\ FanOutIdle /\ LoopIdle
    /\ cat_pc = "idle"
    /\ enabled \in {[vm_list |-> array] : array \in VmListArrays}
    /\ registered = {}
    /\ lookup = 0
    /\ looked_up = {}
    /\ history = <<>>
    /\ g_pc = "while"
    /\ g_cycle = 0
    /\ cluster_list = <<>>
    /\ vms_list = <<>>
    /\ host_list = <<>>
    /\ g_kind = "vm"
    /\ g_details = <<>>
    /\ g_metrics = <<>>
    /\ g_i = 0
    /\ g_writes = <<>>
    /\ gauges = <<>>

NextVmList ==
    \/ /\ g_pc \in {"while", "returned"}
       /\ \E vms \in NamedVmLists : VmRegionBegin(vms)
    \/ VmDetails
    \/ /\ g_pc = "vm_details"
       /\ \E order \in Orders(Len(g_details)) : VmCollectStats(order)
    \/ PublishMetric
    \/ StatsReturn

SpecVmList == InitVmList /\ [][NextVmList]_vars

(***************************************************************************)
(* NutanixMetricsRedfish.fetch and process_redfish_entity                  *)
(***************************************************************************)

\* What ipmi_get_powercontrol can end in: it raises, it returns a mapping
\* without PowerMetrics, or it returns the full mapping.
PowerOutcomes == {"raises", "no_power_metrics", "full"}

\* The gauges of the power part, in the order of the writes.
PowerKeys ==
    << "nutanix_power_consumption_power_consumed_watts",
       "nutanix_power_consumption_min_consumed_watts",
       "nutanix_power_consumption_max_consumed_watts",
       "nutanix_power_consumption_average_consumed_watts" >>

\* The gauges the thermal part writes for the readings "PCH Temp" and
\* "CPU1 Temp", in the order of the writes.
ThermalKeys ==
    << "nutanix_thermal_pch_temp_celcius", "nutanix_thermal_cpu_temp_celsius" >>

\* The writes .labels(ipmi=ipmi_name).set(...) of the keys, for the cycle c.
IpmiWrites(keys, ipmi_name, c) ==
    [k \in 1..Len(keys) |-> [key |-> keys[k], label |-> ipmi_name,
                             value |-> 100 * c + 10 * ipmi_name + k]]

\* fetch is called: one task per entry of ipmi_config is submitted.
RedfishFetch(n) ==
    /\ fo_pc = "idle"
    /\ g_cycle < MaxCycles
    /\ g_cycle' = g_cycle + 1
    /\ g_writes' = <<>>
    /\ details_list' = [i \in 1..n |-> i]
    /\ stat_task' = [i \in 1..n |-> "queued"]
    /\ fo_taken' = {}
    /\ fo_log' = <<>>
    /\ fo_pc' = "with"
    /\ UNCHANGED <<metrics, fo_progress>>
    /\ UNCHANGED <<g_pc, cluster_list, vms_list, host_list, g_kind, g_details,
                   g_metrics, g_i, gauges>>
    /\ UNCHANGED <<reqVars, pageVars, loopVars, catVars>>

\* The power part of process_redfish_entity in a worker thread: the request,
\* then the four writes; power_control['PowerMetrics'] raises KeyError after
\* the first write when the mapping has no PowerMetrics.
PowerControl(i, outcome) ==
    /\ fo_pc = "with"
    /\ i \in DOMAIN stat_task
    /\ stat_task[i] = "queued"
    /\ LET all    == IpmiWrites(PowerKeys, details_list[i], g_cycle)
           writes == CASE outcome = "raises" -> <<>>
                       [] outcome = "no_power_metrics" -> SubSeq(all, 1, 1)
                       [] OTHER -> all
       IN  /\ g_writes' = g_writes \o writes
           /\ gauges' = SetAll(gauges, writes)
    /\ stat_task' = [stat_task EXCEPT ![i] = IF outcome = "full" THEN "running"
                                             ELSE "failed"]
    /\ UNCHANGED <<fo_pc, details_list, fo_taken, metrics, fo_log, fo_progress>>
    /\ UNCHANGED <<g_pc, g_cycle, cluster_list, vms_list, host_list, g_kind, g_details,
                   g_metrics, g_i>>
    /\ UNCHANGED <<reqVars, pageVars, loopVars, catVars>>

\* The thermal part: the request, then the writes; the task returns None.
Thermal(i, ok) ==
    /\ fo_pc = "with"
    /\ i \in DOMAIN stat_task
    /\ stat_task[i] = "running"
    /\ LET writes == IF ok THEN IpmiWrites(ThermalKeys, details_list[i], g_cycle)
                     ELSE <<>>
       IN  /\ g_writes' = g_writes \o writes
           /\ gauges' = SetAll(gauges, writes)
    /\ stat_task' = [stat_task EXCEPT ![i] = IF ok THEN "done" ELSE "failed"]
    /\ UNCHANGED <<fo_pc, details_list, fo_taken, metrics, fo_log, fo_progress>>
    /\ UNCHANGED <<g_pc, g_cycle, cluster_list, vms_list, host_list, g_kind, g_details,
                   g_metrics, g_i>>
    /\ UNCHANGED <<reqVars, pageVars, loopVars, catVars>>

\* The with block is left when every task has finished (shutdown waits).
RedfishJoined ==
    /\ fo_pc = "with"
    /\ \A i \in DOMAIN stat_task : stat_task[i] \in {"done", "failed"}
    /\ fo_pc' = "as_completed"
    /\ UNCHANGED <<details_list, stat_task, fo_taken, metrics, fo_log, fo_progress>>
    /\ UNCHANGED <<reqVars, pageVars, loopVars, laterVars>>

\* One iteration of the as_completed loop: future.result() in try / except.
RedfishTaken(i) ==
    /\ fo_pc = "as_completed"
    /\ i \in DOMAIN stat_task
    /\ i \notin fo_taken
    /\ fo_taken' = fo_taken \cup {i}
    /\ fo_log' = IF stat_task[i] = "failed"
                 THEN Append(fo_log, "A task failed with error") ELSE fo_log
    /\ UNCHANGED <<fo_pc, details_list, stat_task, metrics, fo_progress>>
    /\ UNCHANGED <<reqVars, pageVars, loopVars, laterVars>>

\* The loop is exhausted: fetch returns and its locals are dead.
RedfishReturn ==
    /\ fo_pc = "as_completed"
    /\ AllYielded(fo_taken, stat_task)
    /\ fo_pc' = "idle"
    /\ details_list' = <<>>
    /\ stat_task' = <<>>
    /\ fo_taken' = {}
    /\ fo_log' = <<>>
    /\ UNCHANGED <<metrics, fo_progress>>
    /\ UNCHANGED <<reqVars, pageVars, loopVars, laterVars>>

NextRedfish ==
    \/ \E n \in 1..MaxListed : RedfishFetch(n)
    \/ \E i \in DOMAIN stat_task, outcome \in PowerOutcomes : PowerControl(i, outcome)
    \/ \E i \in DOMAIN stat_task, ok \in BOOLEAN : Thermal(i, ok)
    \/ RedfishJoined
    \/ \E i \in DOMAIN stat_task : RedfishTaken(i)
    \/ RedfishReturn

SpecRedfish == InitFanOut /\ [][NextRedfish]_vars

(***************************************************************************)
(* The stats queries of the sampler functions: v4_get_entity_stats,        *)
(* v4_get_files_analytics_stats and v4_get_objectstore_stats               *)
(***************************************************************************)

\* The sampler functions.
Samplers == {"v4_get_entity_stats", "v4_get_files_analytics_stats",
             "v4_get_objectstore_stats"}

\* The metric key prefixes of the collector.
MetricKeyPrefixes ==
    {"nutanix_clustermgmt_cluster_stats_", "nutanix_clustermgmt_host_stats_",
     "nutanix_clustermgmt_storage_container_stats_", "nutanix_clustermgmt_disk_stats_",
     "nutanix_networking_layer2_stretch_stats_",
     "nutanix_networking_load_balancer_session_stats_",
     "nutanix_networking_traffic_mirror_stats_", "nutanix_networking_vpc_ns_stats_",
     "nutanix_networking_vpn_connection_stats_", "nutanix_vmm_ahv_stats_vm_",
     "nutanix_files_antivirus_stats_", "nutanix_files_file_server_stats_",
     "nutanix_files_mount_target_stats_", "nutanix_objects_objectstore_stats_",
     "nutanix_volumes_volume_group_stats_", "nutanix_volumes_volume_disk_stats_"}

\* metric_key_prefix.startswith('nutanix_files_')
StartsWithFiles(metric_key_prefix) ==
    metric_key_prefix \in {"nutanix_files_antivirus_stats_",
                           "nutanix_files_file_server_stats_",
                           "nutanix_files_mount_target_stats_"}

\* The values of datetime.now() of the model, in seconds.
Times == {1000, 1001, 2000}

\* The keyword arguments of the call of get_stats_function the sampler makes
\* at the time now, for the sampling_interval the caller passed.
StatsQuery(sampler, metric_key_prefix, sampling_interval, now) ==
    CASE sampler = "v4_get_entity_stats" ->
             [_startTime |-> now - 150, _endTime |-> now,
              _samplingInterval |-> IF StartsWithFiles(metric_key_prefix)
                                    THEN 300 ELSE sampling_interval]
      [] sampler = "v4_get_files_analytics_stats" ->
             [_startTime |-> now - 600, _endTime |-> now, _samplingInterval |-> 300]
      [] OTHER ->
             [_startTime |-> now - 150, _endTime |-> now,
              _samplingInterval |-> sampling_interval]

\* The sampler is called for a metric key prefix; every caller in fetch passes
\* sampling_interval=30.
SamplerCall(sampler, metric_key_prefix, now) ==
    /\ g_pc = "idle"
    /\ g_kind' = sampler
    /\ g_details' = StatsQuery(sampler, metric_key_prefix, 30, now)
    /\ g_metrics' = <<metric_key_prefix>>
    /\ g_pc' = "get_stats_function"
    /\ UNCHANGED <<g_cycle, cluster_list, vms_list, host_list, g_i, g_writes, gauges>>
    /\ UNCHANGED <<reqVars, pageVars, fanVars, loopVars, catVars>>

\* The sampler returns or raises: its locals are dead.
SamplerDone ==
    /\ g_pc = "get_stats_function"
    /\ g_kind' = "none"
    /\ g_details' = <<>>
    /\ g_metrics' = <<>>
    /\ g_pc' = "idle"
    /\ UNCHANGED <<g_cycle, cluster_list, vms_list, host_list, g_i, g_writes, gauges>>
    /\ UNCHANGED <<reqVars, pageVars, fanVars, loopVars, catVars>>

NextQueries ==
    \/ /\ g_pc = "idle"
       /\ \E sampler \in Samplers, metric_key_prefix \in MetricKeyPrefixes, now \in Times :
              SamplerCall(sampler, metric_key_prefix, now)
    \/ SamplerDone

SpecQueries == InitFanOut /\ [][NextQueries]_vars

(***************************************************************************)
(* Properties of process_request                                           *)
(***************************************************************************)
Retryable(kind) == IsInstance(kind, "ConnectionError") \/ IsInstance(kind, "Timeout")

AllAttempts(class) ==
    /\ Attempts(events) # {}
    /\ \A i \in Attempts(events) : /\ events[i].kind # "response"
                                  /\ IsInstance(events[i].kind, class)

\* C1: with max_retries = N >= 1 and every attempt failing with a timeout (or
\* every attempt failing with a connection error), the call makes exactly N
\* attempts and N-1 sleeps of the configured delay, one between each pair of
\* consecutive attempts, and then fails with an error carrying the URL and
\* the underlying cause.
C1_RetryBound ==
    (max_retries >= 1 /\ (AllAttempts("Timeout") \/ AllAttempts("ConnectionError"))) =>
        /\ rq_pc \in {"loop", "raised"}
        /\ rq_pc = "loop" =>
              /\ Cardinality(Attempts(events)) = max_retries - retries
              /\ Cardinality(Attempts(events)) < max_retries
        /\ rq_pc = "raised" =>
              /\ Cardinality(Attempts(events)) = max_retries
              /\ Cardinality(Sleeps(events)) = max_retries - 1
              /\ Len(events) = 2 * max_retries - 1
              /\ raised.type = "Exception"
              /\ {"url", "cause"} \subseteq raised.carries
        /\ \A i \in 1..Len(events) :
              IF i % 2 = 1 THEN IsAttempt(events[i])
              ELSE events[i] = Sleep(sleep_between_retries)

C1_Witness ==
    /\ rq_pc = "raised"
    /\ max_retries = 3
    /\ AllAttempts("Timeout")
    /\ Cardinality(Attempts(events)) = 3
    /\ Cardinality(Sleeps(events)) = 2

\* C2: a response with a non-success status is the last thing the call does:
\* no attempt and no sleep follows it, whatever the retries left, and the call
\* has ended in an error.
C2_FatalShortCircuit ==
    \A i \in 1..Len(events) :
        (events[i].kind = "response" /\ ~Ok(events[i].arg)) =>
            /\ i = Len(events)
            /\ rq_pc = "raised"
            /\ raised # NoError

C2_Witness ==
    /\ rq_pc = "raised"
    /\ max_retries = 3
    /\ retries = 2
    /\ Len(events) = 3
    /\ events[3] = Attempt("response", 503)

\* C3: an attempt after the first follows exactly one sleep of retry_delay that
\* follows an attempt failed with a connection error or a timeout; the retries
\* left are max_retries less one per retry; at most max_retries attempts.
C3_RetryOnlyTransient ==
    rq_pc # "idle" =>
        /\ \A i \in Attempts(events) : i > 1 =>
              /\ i > 2
              /\ events[i-1] = Sleep(sleep_between_retries)
              /\ IsAttempt(events[i-2])
              /\ events[i-2].kind # "response"
              /\ Retryable(events[i-2].kind)
        /\ \A i \in Sleeps(events) : i > 1 /\ IsAttempt(events[i-1])
        /\ retries = max_retries - Cardinality(Sleeps(events))
        /\ Cardinality(Attempts(events)) <= max_retries

C3_Witness ==
    /\ rq_pc = "returned"
    /\ max_retries = 3
    /\ retries = 1
    /\ Cardinality(Attempts(events)) = 3
    /\ events[1].kind = "ConnectionError"
    /\ events[3].kind = "ReadTimeout"

\* C4: a request exception that is neither a connection error nor a timeout
\* ends the call at once, without retry, in a descriptive error that carries
\* the URL and the underlying cause, also on the first attempt.
C4_OtherExceptionDescriptive ==
    \A i \in Attempts(events) :
        (events[i].kind # "response" /\ ~Retryable(events[i].kind)) =>
            /\ i = Len(events)
            /\ rq_pc = "raised"
            /\ raised.type = "Exception"
            /\ {"url", "cause"} \subseteq raised.carries

\* C5: for every non-success status the error raised carries the status code,
\* the reason and the response body, for 401 and 500 like for the others.
C5_StatusErrorCarriesBody ==
    (rq_pc = "raised" /\ response.bound /\ ~Ok(response.status_code)) =>
        {"status_code", "reason", "text"} \subseteq raised.carries

\* C33: a call that has ended returned a response with a success status or
\* raised an error that names the URL, and made at least one HTTP attempt.
C33_ReturnsSuccessOrRaisesWithUrl ==
    /\ rq_pc = "returned" =>
           /\ response.bound
           /\ Ok(response.status_code)
    /\ rq_pc = "raised" => "url" \in raised.carries
    /\ rq_pc \in {"returned", "raised"} => Attempts(events) # {}

(***************************************************************************)
(* Properties of v4_get_all_entities                                       *)
(***************************************************************************)
\* The least n with n * lim >= total.
CeilDiv(total, lim) ==
    CHOOSE n \in 0..total : /\ n * lim >= total
                            /\ \A m \in 0..total : m * lim >= total => n <= m

PagesWith(state) == {page \in DOMAIN page_task : page_task[page] = state}

\* C6: once the count probe has answered T, the tasks submitted are one per
\* page index 0 .. ceil(T/P)-1, none twice; for T = 0 no task is submitted and
\* the call has returned the empty list without raising.
C6_PaginationCompleteness ==
    pg_pc \in {"as_completed", "returned"} =>
        LET pages == CeilDiv(total_available_results, limit)
        IN  /\ Len(futures) = pages
            /\ \A page \in 0..(pages - 1) :
                  Cardinality({i \in 1..Len(futures) : futures[i] = page}) = 1
            /\ DOMAIN page_task = 0..(pages - 1)
            /\ total_available_results = 0 =>
                  /\ pg_pc = "returned"
                  /\ futures = <<>>
                  /\ entity_list = <<>>

C6_Witness ==
    /\ pg_pc = "as_completed"
    /\ total_available_results = 3
    /\ limit = 2
    /\ futures = <<0, 1>>

\* C7: the list returned holds the entities of the pages whose task succeeded,
\* each once, whatever the order of completion; every task has run to its end,
\* one warning is printed per failed task, and only the count probe makes the
\* call raise; 150 entities in pages of 100, both fetched, give 150 entities
\* from 2 tasks.
C7_UnionOfFetchedPages ==
    /\ pg_pc = "returned" =>
          /\ \A page \in DOMAIN page_task : page_task[page] \in {"done", "failed"}
          /\ Elements(entity_list) =
                UNION {Elements(PageData(total_available_results, limit, page)) :
                          page \in PagesWith("done")}
          /\ Len(entity_list) = Cardinality(Elements(entity_list))
          /\ Cardinality({i \in 1..Len(pg_log) : pg_log[i] = "Task failed"}) =
                Cardinality(PagesWith("failed"))
          /\ pg_progress = Len(futures)
          /\ (total_available_results = 150 /\ limit = 100 /\ PagesWith("failed") = {}) =>
                (Len(entity_list) = 150 /\ Len(futures) = 2)
    /\ pg_pc = "raised" => (futures = <<>> /\ page_task = <<>>)

C7_Witness ==
    /\ pg_pc = "returned"
    /\ total_available_results = 3
    /\ limit = 1
    /\ page_task = [page \in 0..2 |-> IF page = 1 THEN "failed" ELSE "done"]
    /\ entity_list = <<2, 0>>

(***************************************************************************)
(* Properties of the per-entity fan-out                                    *)
(***************************************************************************)
TasksWith(state) == {i \in DOMAIN stat_task : stat_task[i] = state}

RECURSIVE TriplesOf(_)
TriplesOf(tasks) ==
    IF tasks = {} THEN {}
    ELSE LET i == CHOOSE j \in tasks : TRUE
         IN  Elements(EntityStats(details_list[i])) \cup TriplesOf(tasks \ {i})

\* C8: when the fan-out has collected its tasks, the metrics are the triples of
\* the tasks that succeeded, each once, one warning was printed per failed
\* task, every task was counted by the progress bar, and the fan-out did not
\* raise, whichever tasks failed.
C8_PartialFailureIsolation ==
    /\ fo_pc # "raised"
    /\ fo_pc = "collected" =>
          /\ Elements(metrics) = TriplesOf(TasksWith("done"))
          /\ Len(metrics) = Cardinality(Elements(metrics))
          /\ Len(fo_log) = Cardinality(TasksWith("failed"))
          /\ fo_progress = Len(details_list)
          /\ TasksWith("done") \cup TasksWith("failed") = DOMAIN stat_task

C8_Witness ==
    /\ fo_pc = "collected"
    /\ Len(details_list) = 5
    /\ TasksWith("failed") = {2}
    /\ Len(fo_log) = 1
    /\ Elements(metrics) = TriplesOf({1, 3, 4, 5})

(***************************************************************************)
(* Properties of the polling loop                                          *)
(***************************************************************************)
\* C9: a cycle in which the enumeration of some kind raised is followed by the
\* sleep and the next cycle: the failure does not end the polling loop.
C9_LoopSurvivesCycleFailure ==
    cycle_failure # "none" => loop_pc \in {"fetch", "sleep", "while"}

\* C10: when the enumeration of one kind raised, the enabled kinds whose
\* fan-out comes later in fetch are still sampled in that cycle.
C10_LaterKindsStillSampled ==
    (cycle_failure # "none" /\ loop_pc # "fetch") =>
        \A j \in (step + 1)..Len(Program) :
            (/\ Program[j].op = "fan_out"
             /\ flags[Program[j].flag]
             /\ Program[j].kind # cycle_failure) => Program[j].kind \in sampled

(***************************************************************************)
(* Properties of the gauges of NutanixMetrics                              *)
(***************************************************************************)

\* C11: every metric key a publish step of fetch looks up in self.__dict__ is a
\* gauge that __init__ registered, for every combination of the enable flags.
C11_LookedUpKeysRegistered == looked_up \subseteq registered

(***************************************************************************)
(* Properties of the count region                                          *)
(***************************************************************************)
NonPrismCentral(clusters) ==
    {i \in 1..Len(clusters) : "PRISM_CENTRAL" \notin clusters[i].cluster_function}

VmsOn(vms, ext_id) ==
    Cardinality({j \in 1..Len(vms) : /\ vms[j].cluster_ext_id = ext_id
                                     /\ vms[j].power_state = "ON"})

\* C12: when the vm count region is done, for every cluster of cluster_list
\* that is no Prism Central cluster, the gauge nutanix_count_vm_on holds under
\* the name of the cluster the number of VMs of vms_list that refer to the
\* ext_id of the cluster and are powered on.
C12_VmOnCountByCluster ==
    g_pc = "returned" =>
        \A i \in NonPrismCentral(cluster_list) :
            /\ <<"nutanix_count_vm_on", cluster_list[i].name>> \in DOMAIN gauges
            /\ gauges[<<"nutanix_count_vm_on", cluster_list[i].name>>]
                   = VmsOn(vms_list, cluster_list[i].ext_id)

VmCountKeys == {"nutanix_count_vm", "nutanix_count_vm_on", "nutanix_count_vm_off"}

\* C13: with an empty vms_list, the vm count region writes, for every cluster
\* of cluster_list that is no Prism Central cluster, each VM count gauge under
\* the name of the cluster with the value 0; with an empty cluster_list the for
\* loop writes nothing and fetch goes on to its return.
C13_EmptyListsTolerated ==
    /\ (g_pc = "returned" /\ vms_list = <<>>) =>
           \A i \in NonPrismCentral(cluster_list), key \in VmCountKeys :
               /\ \E w \in 1..Len(g_writes) :
                      /\ g_writes[w].key = key
                      /\ g_writes[w].label = cluster_list[i].name
                      /\ g_writes[w].value = 0
               /\ <<key, cluster_list[i].name>> \in DOMAIN gauges
               /\ gauges[<<key, cluster_list[i].name>>] = 0
    /\ (g_pc = "vm_count" /\ cluster_list = <<>>) =>
           g_writes = <<>> /\ ENABLED AggregateReturn

\* The vm count region has run over two clusters with no VM at all.
C13_Witness ==
    /\ g_pc = "returned"
    /\ vms_list = <<>>
    /\ Cardinality(NonPrismCentral(cluster_list)) = 2
    /\ Len(g_writes) = 6

(***************************************************************************)
(* Properties of the stats regions                                         *)
(***************************************************************************)

\* The value the task of descriptor d sampled in this cycle, as metrics holds it.
SampledValue(d) == <<ToString(10 * d.entity_uuid + g_cycle)>>

Sampled(d) ==
    \E m \in 1..Len(g_metrics) : Split(g_metrics[m])[3] = SampledValue(d)

OwnLabel(d) == Sanitize(d.parent_name \o <<"_">> \o d.entity_name)

Holds(key, label, value) ==
    <<key, label>> \in DOMAIN gauges /\ gauges[<<key, label>>] = value

\* C14: when the storage containers region is done, two storage containers of
\* the same name under clusters of different names, both sampled, are published
\* under two distinct labels, each the sanitized "{own cluster name}_{name}",
\* and each label holds the value sampled for its own container.
C14_SameNamedContainersDistinctLabels ==
    (g_pc = "returned" /\ g_kind = "storage_container") =>
        \A i, j \in 1..Len(g_details) :
            ( /\ i # j
              /\ g_details[i].entity_name = g_details[j].entity_name
              /\ g_details[i].parent_name # g_details[j].parent_name
              /\ Sampled(g_details[i]) /\ Sampled(g_details[j]) ) =>
                /\ OwnLabel(g_details[i]) # OwnLabel(g_details[j])
                /\ Holds(<<StatsKeys("storage_container_stats")[1]>>,
                         OwnLabel(g_details[i]), SampledValue(g_details[i]))
                /\ Holds(<<StatsKeys("storage_container_stats")[1]>>,
                         OwnLabel(g_details[j]), SampledValue(g_details[j]))

\* C15: when a cycle is done, every label a gauge holds is the label of an
\* entity of that cycle's list, written in that cycle: no label and value of an
\* entity that is no longer enumerated is kept from an earlier cycle.
C15_LabelsOfThisCycleOnly ==
    g_pc = "returned" =>
        \A cell \in DOMAIN gauges :
            \E w \in 1..Len(g_writes) :
                /\ g_writes[w].key = cell[1]
                /\ g_writes[w].label = cell[2]

\* C17: no label value that fetch writes to a gauge contains "." or "-".
C17_LabelValuesSanitized ==
    \A w \in 1..Len(g_writes) :
        \A i \in 1..Len(g_writes[w].label) : g_writes[w].label[i] \notin {".", "-"}

\* C18: the label the storage containers region writes is the sanitized
\* "{cluster name}_{name}": sanitizing it again changes nothing, it contains
\* no "." and no "-", and the name "a.b-c" gives "a_b_c".
C18_SanitizeIdempotent ==
    g_kind = "storage_container" =>
        \A w \in 1..Len(g_writes) :
            LET d == g_details[1]
                composed == d.parent_name \o <<"_">> \o d.entity_name
                label == g_writes[w].label
            IN  /\ label = Sanitize(composed)
                /\ Sanitize(Sanitize(composed)) = Sanitize(composed)
                /\ Sanitize(label) = label
                /\ \A i \in 1..Len(label) : label[i] \notin {".", "-"}
                /\ d.entity_name = <<"a", ".", "b", "-", "c">> =>
                       SubSeq(label, Len(d.parent_name) + 2, Len(label))
                           = <<"a", "_", "b", "_", "c">>

\* The container "a.b-c" of cluster "B-1" was published as "B_1_a_b_c".
C18_Witness ==
    /\ g_kind = "storage_container"
    /\ Len(g_writes) = 1
    /\ g_details[1].entity_name = <<"a", ".", "b", "-", "c">>
    /\ g_writes[1].label = <<"B", "_", "1", "_", "a", "_", "b", "_", "c">>

(***************************************************************************)
(* Properties of the legacy counts                                         *)
(***************************************************************************)

\* C16: a cycle in which the collection of a kind failed leaves the gauge of
\* the kind at the value the last successful cycle wrote; for the legacy Prism
\* Central counts: when the count probe of the volume groups raised, the publish
\* step leaves nutanix_count_vg as it was, and likewise nutanix_count_vm when
\* the count probe of the VMs raised.
C16_FailedCollectionKeepsValues ==
    [][ \A kind \in {"vg", "vm"} :
          LET cell == <<"nutanix_count_" \o kind, "prism_central_hostname">>
              probe == IF kind = "vg" THEN g_details.vg_probe ELSE g_details.vm_probe
          IN  (g_pc = "legacy_publish" /\ ~probe.ok /\ cell \in DOMAIN gauges) =>
                  (cell \in DOMAIN gauges' /\ gauges'[cell] = gauges[cell]) ]_vars

(***************************************************************************)
(* Properties of the order of the steps of a cycle                         *)
(***************************************************************************)

C20_EnumeratedAtMostOnce ==
    \A i, j \in 1..Len(enumerated) : enumerated[i] = enumerated[j] => i = j

(***************************************************************************)
(* Properties of the cells a cycle writes                                  *)
(***************************************************************************)

\* The descriptors of the entities whose sampled value the write w carries.
WrittenFor(w) ==
    {i \in 1..Len(g_details) : SampledValue(g_details[i]) = g_writes[w].value}

\* C21: within one cycle, two writes of the same cell (the same key and the
\* same label value) are made on behalf of the same entity.
C21_CellWrittenForOneEntity ==
    \A v, w \in 1..Len(g_writes) :
        (g_writes[v].key = g_writes[w].key /\ g_writes[v].label = g_writes[w].label) =>
            WrittenFor(v) = WrittenFor(w)

(***************************************************************************)
(* Properties of v4_get_entity_stats                                       *)
(***************************************************************************)

\* The triples of metrics_list that carry the key of the field.
FieldTriples(field) ==
    {m \in 1..Len(g_metrics) : Split(g_metrics[m])[1] = <<g_kind \o field.metric>>}

Skipped(field) == field.metric \in exclude_list \/ field.metric \in lb_stats

\* C22: a field that is None or whose list of records is empty yields no
\* triple and no error: the sampler does not raise, and when it has returned,
\* every other field that is neither excluded nor composite has its triple.
C22_AbsentFieldsDropped ==
    g_kind \in Prefixes =>
        /\ g_pc # "raised"
        /\ g_pc = "returned" =>
               \A i \in 1..Len(g_details.metrics) :
                   LET field == g_details.metrics[i]
                   IN  IF field.metric_data.none \/ field.metric_data.list = <<>>
                       THEN FieldTriples(field) = {}
                       ELSE ~Skipped(field) => FieldTriples(field) # {}

Requested == \E i \in 1..Len(history) : history[i].op = "request"

\* C24: a gauge is registered only by the constructor, and only as long as the
\* process has sent no network request; the set of gauges never shrinks.
C24_RegisteredBeforeFirstRequest ==
    [][ /\ registered \subseteq registered'
        /\ registered' # registered => (cat_pc = "__init__" /\ ~Requested) ]_vars

\* C36: the constructor creates no gauge of a name it has created before: the
\* registrations of the process have pairwise different names.
C36_NameRegisteredOnce ==
    \A i, j \in 1..Len(history) :
        (/\ history[i].op = "register"
         /\ history[j].op = "register"
         /\ history[i].what = history[j].what) => i = j

(***************************************************************************)
(* Properties of the two vm count regions of one cycle                     *)
(***************************************************************************)

\* C25: from the start of the per-cluster aggregation to the end of the cycle
\* the VM list and the cluster list stay what they are, and the per-host
\* aggregation leaves the host list as it is: the per-host aggregation joins
\* the VM list the per-cluster aggregation joined.
C25_JoinedListsUnchanged ==
    [][ /\ g_pc \in {"vm_count", "host_vm_count"} =>
               (vms_list' = vms_list /\ cluster_list' = cluster_list)
        /\ g_pc = "host_vm_count" => host_list' = host_list ]_vars

\* The value the gauge child of the key holds for the host.
CountOf(key, host) == gauges[<<key, host.name>>]

\* C37: when the loop over the hosts is done, every host of host_list has as
\* many VMs published as powered-on VMs, and no powered-off VM.
C37_HostCountsPoweredOnOnly ==
    (g_pc = "returned" /\ host_list # <<>>) =>
        \A h \in 1..Len(host_list) :
            /\ CountOf("nutanix_count_vm", host_list[h])
                   = CountOf("nutanix_count_vm_on", host_list[h])
            /\ CountOf("nutanix_count_vm_off", host_list[h]) = 0

\* A host with a powered-on VM was published while the list holds a
\* powered-off VM as well.
C37_Witness ==
    /\ g_pc = "returned"
    /\ \E h \in 1..Len(host_list) : CountOf("nutanix_count_vm", host_list[h]) = 1
    /\ \E v \in 1..Len(vms_list) : vms_list[v].power_state = "OFF"

(***************************************************************************)
(* Properties of the cycles of run_metrics_loop                            *)
(***************************************************************************)

\* C26: a call of fetch starts with every entity list empty, and a list that
\* is not empty holds what was enumerated in the cycle that runs: no list is
\* carried from one cycle to the next.
C26_ListsOfThisCycleOnly ==
    [][ /\ cycle' # cycle => \A k \in Kinds : lists'[k] = <<>>
        /\ \A k \in Kinds : lists'[k] # <<>> => k \in Elements(enumerated') ]_vars

\* The second cycle starts with empty lists after a cycle that enumerated and
\* sampled clusters.
C26_Witness ==
    /\ cycle = 2
    /\ loop_pc = "fetch"
    /\ enumerated = <<>>
    /\ \A k \in Kinds : lists[k] = <<>>
    /\ registry["cluster_stats"] = 1

\* C27: a cycle starts only from the top of the while loop, which is reached
\* only when the sleep has ended, and the sleep starts only when fetch has run
\* to its end: the calls of fetch never overlap, however many steps one takes.
C27_CyclesNeverOverlap ==
    [][ /\ cycle' # cycle =>
               (loop_pc = "while" /\ loop_pc' = "fetch" /\ cycle' = cycle + 1)
        /\ (loop_pc' = "while" /\ loop_pc # "while") => loop_pc = "sleep"
        /\ (loop_pc' = "sleep" /\ loop_pc # "sleep") =>
               (loop_pc = "fetch" /\ step = End) ]_vars

\* The second cycle runs after a first one that enumerated and sampled the
\* clusters, the hosts and the storage containers.
C27_Witness ==
    /\ cycle = 2
    /\ loop_pc = "fetch"
    /\ step < End
    /\ registry["cluster_stats"] = 1
    /\ registry["host_stats"] = 1
    /\ registry["storage_container_stats"] = 1

(***************************************************************************)
(* Properties of concurrent calls of process_request                       *)
(***************************************************************************)

\* The call of the frame did what its own attempts make it do: it has as many
\* retries left as it was given less its own sleeps, each of its sleeps lasts
\* its own delay and follows a retryable failure of its own, it made no more
\* attempts than its own retries, and its outcome follows from its last attempt.
OwnRun(frame) ==
    LET evs == frame.events
        last == evs[Len(evs)]
    IN  frame.pc # "idle" =>
            /\ frame.retries = frame.max_retries - Cardinality(Sleeps(evs))
            /\ \A i \in Sleeps(evs) :
                   /\ evs[i].arg = frame.sleep_between_retries
                   /\ i > 1 /\ Retryable(evs[i - 1].kind)
            /\ Cardinality(Attempts(evs)) <= frame.max_retries
            /\ frame.pc = "loop" => Len(evs) = 2 * Cardinality(Sleeps(evs))
            /\ frame.pc = "returned" =>
                   (evs # <<>> /\ last.kind = "response" /\ Ok(last.arg))
            /\ (frame.pc = "raised" /\ "cause" \in frame.raised.carries) =>
                   /\ evs # <<>> /\ Retryable(last.kind)
                   /\ Cardinality(Attempts(evs)) = frame.max_retries

\* C28: with two calls of process_request interleaved in any way, each call
\* makes the attempts and sleeps and has the outcome that its own parameters
\* and the failures of its own attempts give.
C28_CallsDoNotInterfere == OwnRun(Running) /\ OwnRun(parked)

\* Two calls are in their loops, with different delays, one after two sleeps
\* and the other after one.
C28_Witness ==
    /\ rq_pc = "loop"
    /\ parked.pc = "loop"
    /\ sleep_between_retries # parked.sleep_between_retries
    /\ Cardinality(Sleeps(events)) = 2
    /\ Cardinality(Sleeps(parked.events)) = 1

(***************************************************************************)
(* Properties of the triples between the sampler and the publish step      *)
(***************************************************************************)

\* C29: every triple of metrics splits into exactly the key, the name of the
\* entity it was sampled for and the sampled value, and the publish step does
\* not raise.
C29_TripleRoundTrip ==
    g_kind \in {"cluster", "host", "storage_container"} =>
        /\ g_pc # "raised"
        /\ \A m \in 1..Len(g_metrics) :
               LET parts == Split(g_metrics[m])
               IN  /\ Len(parts) = 3
                   /\ parts[1] = <<StatsKeys(g_kind \o "_stats")[1]>>
                   /\ \E i \in 1..Len(g_details) :
                          /\ parts[2] = g_details[i].entity_name
                          /\ parts[3] = SampledValue(g_details[i])


\* The descriptors whose task returned its triple in this cycle.
Returned == {i \in 1..Len(g_details) : Sampled(g_details[i])}

\* The label the publish step writes the triple of descriptor i under.
PublishedLabel(i) ==
    LET named == SelectSeq(g_details,
                           LAMBDA d : d.entity_name = g_details[i].entity_name)
    IN  IF g_kind = "storage_container"
        THEN Sanitize(named[1].parent_name \o <<"_">> \o g_details[i].entity_name)
        ELSE g_details[i].entity_name

\* C30: when the stats region is done, the gauges hold what they hold when the
\* tasks that returned complete in the order they were submitted in: under the
\* label of each of these tasks, the value of the last submitted of the tasks
\* that were published under that label.
C30_CompletionOrderIrrelevant ==
    (g_pc = "returned" /\ g_kind \in {"cluster", "host", "storage_container"}) =>
        \A i \in Returned :
            LET same == {j \in Returned : PublishedLabel(j) = PublishedLabel(i)}
                last == CHOOSE j \in same : \A k \in same : k <= j
            IN  Holds(<<StatsKeys(g_kind \o "_stats")[1]>>, PublishedLabel(i),
                      SampledValue(g_details[last]))


(***************************************************************************)
(* Properties of the tasks of a stats region                               *)
(***************************************************************************)

\* The tasks that were submitted and have not finished.
Unfinished(tasks) == {t \in DOMAIN tasks : tasks[t] \in {"queued", "running"}}

C32_DiskPagesOfEachGroup ==
    vg_i # 0 =>
        /\ pg_pc # "raised"
        /\ pg_pc = "as_completed" =>
               /\ volume_group_list[vg_i] # 0
               /\ Len(futures) = PageCount(volume_group_list[vg_i], limit)
        /\ \A d \in 1..Len(volume_disk_details_list) :
               LET details == volume_disk_details_list[d]
               IN  /\ details.entity_parent = details.entity_uuid.group
                   /\ volume_group_list[details.entity_parent] # 0


(***************************************************************************)
(* Properties of the vmm region for a list of VM names                     *)
(***************************************************************************)

\* The configured names that some enumerated VM has, in the configured order.
Matched ==
    SelectSeq(enabled.vm_list,
              LAMBDA entity : \E i \in 1..Len(vms_list) : vms_list[i].name = entity)

\* C34: with a list of VM names configured, the region does not raise, and
\* when its fan-out starts the descriptors are those of the configured names
\* that some enumerated VM has: a name that matches no VM has no descriptor,
\* every other configured name has one.
C34_UnmatchedNameSkipped ==
    g_kind = "vm" =>
        /\ g_pc # "raised"
        /\ g_pc \in {"publish", "returned"} =>
               [i \in 1..Len(g_details) |-> g_details[i].entity_name] = Matched


(***************************************************************************)
(* Properties of the tasks of NutanixMetricsRedfish.fetch                  *)
(***************************************************************************)

\* C35: no gauge of an entity whose task failed was written in this cycle.
C35_FailedTaskWritesNothing ==
    \A i \in DOMAIN stat_task :
        stat_task[i] = "failed" =>
            \A w \in 1..Len(g_writes) : g_writes[w].label # details_list[i]


(***************************************************************************)
(* Properties of the stats queries                                         *)
(***************************************************************************)

====
